---- MODULE Spec2Model ----
(***************************************************************************)
(* push-to-k8s: replication of the secrets labelled push-to-k8s=source     *)
(* from the source namespace into every other namespace.                   *)
(*                                                                         *)
(* The cluster store is modelled with the API server's write semantics the *)
(* repository documents (docs/contributing/development.md): Create assigns *)
(* a fresh UID and resource version; Update is rejected when the request   *)
(* carries a UID other than the stored object's, or a stale resource       *)
(* version.  UID 0 and resource version 0 stand for the empty string.      *)
(*                                                                         *)
(* Every call into pkg/k8s is taken request by request: one step of the    *)
(* model is one blocking request to the API server, or one Wait on the     *)
(* rate limiter, together with the local code up to the next one, so that  *)
(* the external actor and the other goroutines act between any two of      *)
(* them.                                                                   *)
(*                                                                         *)
(* Specifications:                                                         *)
(*   Spec         SyncSecrets over a cluster an external actor keeps       *)
(*                changing;                                                *)
(*   SpecAdd      the Add handler of the namespace informer;               *)
(*   SpecPaths    the functions of the package that write secrets, called  *)
(*                while the Add handler runs, whose Get of the namespace   *)
(*                may fail;                                                *)
(*   SpecLoops    the four functions that loop over a listing, over two    *)
(*                source secrets and two namespaces, with requests that    *)
(*                fail;                                                    *)
(*   SpecRace     the sweep and the Add handler at the same time, with     *)
(*                replicas edited from outside;                            *)
(*   SpecStale    the sweep and syncSingleSecretToAllNamespaces at the     *)
(*                same time;                                               *)
(*   SpecSweep    sweeps and delete passes over source secrets that are    *)
(*                deleted or lose the marker label;                        *)
(*   SpecDelete   WatchSourceSecrets beside the sweep, over two namespaces *)
(*                and a source secret that is created and deleted;         *)
(*   SpecDirect   one caller of SyncSecrets, syncSecretToNamespace and     *)
(*                deleteSingleSecretFromAllNamespaces, also repeated;      *)
(*   SpecWatcher  WatchSourceSecrets with its debouncer goroutine;         *)
(*   SpecQueue    the informer callbacks and the debouncer at the bounded  *)
(*                event queue;                                             *)
(*   SpecShutdown WatchSourceSecrets returning while callbacks still run;  *)
(*   SpecHandler  the event handlers of the secret informer, over a        *)
(*                source secret whose data and metadata change;            *)
(*   SpecMain     the process main.go assembles, while it runs;            *)
(*   SpecLifecycle  main from start-up to exit;                            *)
(*   SpecReturn   SpecLifecycle with every goroutine scheduled;            *)
(*   SpecStartup  WatchNamespaces and WatchSourceSecrets with a cache      *)
(*                sync that fails;                                         *)
(*   SpecConfig   LoadConfigFromEnv over a set of environments.            *)
(***************************************************************************)
EXTENDS Integers, Sequences, FiniteSets, TLC

VARIABLES
    excludeNamespaceLabel, \* cfg.ExcludeNamespaceLabel ("" = no exclusion)
    namespaces,            \* cluster: namespace name -> its labels
    secrets,               \* cluster: <<namespace, name>> -> secret object
    rev,                   \* cluster: last revision the store handed out
    nsEvents,              \* namespace informer: Add notifications not yet handled
    calls,                 \* secret write requests issued by the last operation
    lastOp,                \* the operation that made the last step
    watcher,               \* WatchSourceSecrets: "idle", "started", "syncFailed",
                           \* "returned" or "panicked"
    debouncer,             \* processDebouncedSecretQueue: "none", "select", "processBatch",
                           \* "panicked" or "returned"
    ctxDone,               \* the shared context is cancelled
    eventQueue,            \* the buffered channel of SecretEvent
    queueClosed,           \* close(eventQueue) was executed
    informerCache,         \* secret informer: name -> the object it last notified
    timer,                 \* the debouncer's timer: "nil", "armed" (created or reset, and
                           \* not stopped since) or "stopped"
    pendingEvents,         \* the debouncer's map: secret name -> latest event
    emitted,               \* history: every event a callback sent to the queue
    applied,               \* history: every event processBatch applied
    batches,               \* history: number of non-empty batches applied
    periodic,              \* main's periodic goroutine: "initial" or "ticking"
    sourceChange,          \* history: the last change of a source secret, and
                           \* whether a full debounce window has passed since
    sweptSinceChange,      \* history: a periodic sweep ran after the last outside change
    mainPC,                \* main: "start", "waitSignal", "signalled", "waitDone", "complete"
    wgRunning,             \* the WaitGroup: goroutines started and not yet returned
    nsWatcher,             \* WatchNamespaces: "none", "syncing", "syncFailed", "watching"
                           \* or "returned"
    frames                 \* goroutine -> the call of pkg/k8s it is in, with its locals

clusterVars == <<namespaces, secrets, rev>>
opVars == <<nsEvents, calls, lastOp>>
watcherVars == <<watcher, debouncer, ctxDone, eventQueue, queueClosed, informerCache,
                 timer, pendingEvents, emitted, applied, batches>>
mainVars == <<periodic, sourceChange, sweptSinceChange, mainPC, wgRunning, nsWatcher>>
vars == <<excludeNamespaceLabel, clusterVars, opVars, watcherVars, mainVars, frames>>

----------------------------------------------------------------------------
(* Bounds and fixed names *)

MaxRev == 4

SourceNamespace == "src"
NsOrder == <<"ns1", "ns2", "src">>          \* Namespaces().List order
NsNames == {NsOrder[i] : i \in 1..Len(NsOrder)}
NameOrder == <<"creds", "token">>           \* Secrets().List order
\* The source secret the external actor creates, changes and deletes during a
\* run; the other name is that of a secret the cluster holds from the start.
SecretNames == {NameOrder[1]}

MarkerKey == "push-to-k8s"
MarkerValue == "source"
ExcludeKey == "skip"

EmptyMap == [k \in {} |-> ""]
MarkerLabels == (MarkerKey :> MarkerValue)
DataValues == {("user" :> "a"), ("user" :> "b")}
NsLabelValues == {EmptyMap, (ExcludeKey :> ""), (ExcludeKey :> "true")}

\* A label of a source secret that is not the marker, and the values it takes.
NoteKey == "note"
NoteValues == {"x", "y"}

NoUID == 0
NoRV == 0

----------------------------------------------------------------------------
(* The cluster store *)

Store(s, r, c) == [secrets |-> s, rev |-> r, calls |-> c]

Without(f, k) == [x \in DOMAIN f \ {k} |-> f[x]]

Call(verb, ns, obj, existingUID, result) ==
    [verb |-> verb, ns |-> ns, name |-> obj.name, uid |-> obj.uid, rv |-> obj.rv,
     existingUID |-> existingUID, result |-> result]

\* Secrets(ns).Create: the server assigns the UID and the resource version.
StoreCreate(st, ns, obj) ==
    IF <<ns, obj.name>> \in DOMAIN st.secrets
    THEN [st EXCEPT !.calls = Append(@, Call("create", ns, obj,
                                   st.secrets[<<ns, obj.name>>].uid, "AlreadyExists"))]
    ELSE LET stored == [obj EXCEPT !.namespace = ns, !.uid = st.rev + 1, !.rv = st.rev + 1]
         IN Store((<<ns, obj.name>> :> stored) @@ st.secrets,
                  st.rev + 1,
                  Append(st.calls, Call("create", ns, obj, NoUID, "ok")))

\* Secrets(ns).Update: UID precondition, then optimistic concurrency on the
\* resource version; the stored object keeps its UID.
StoreUpdate(st, ns, obj) ==
    IF <<ns, obj.name>> \notin DOMAIN st.secrets
    THEN [st EXCEPT !.calls = Append(@, Call("update", ns, obj, NoUID, "NotFound"))]
    ELSE LET cur == st.secrets[<<ns, obj.name>>] IN
         IF obj.uid # NoUID /\ obj.uid # cur.uid
         THEN [st EXCEPT !.calls = Append(@, Call("update", ns, obj, cur.uid, "UIDMismatch"))]
         ELSE IF obj.rv # NoRV /\ obj.rv # cur.rv
         THEN [st EXCEPT !.calls = Append(@, Call("update", ns, obj, cur.uid, "Conflict"))]
         ELSE LET stored == [obj EXCEPT !.namespace = ns, !.uid = cur.uid, !.rv = st.rev + 1]
              IN Store([st.secrets EXCEPT ![<<ns, obj.name>>] = stored],
                       st.rev + 1,
                       Append(st.calls, Call("update", ns, obj, cur.uid, "ok")))

\* Secrets(ns).Delete by name.
StoreDelete(st, ns, name) ==
    LET req == [name |-> name, uid |-> NoUID, rv |-> NoRV] IN
    IF <<ns, name>> \notin DOMAIN st.secrets
    THEN [st EXCEPT !.calls = Append(@, Call("delete", ns, req, NoUID, "NotFound"))]
    ELSE Store(Without(st.secrets, <<ns, name>>),
               st.rev + 1,
               Append(st.calls, Call("delete", ns, req,
                                     st.secrets[<<ns, name>>].uid, "ok")))

----------------------------------------------------------------------------
(* pkg/k8s/secret.go *)

HasLabel(labels, key) == key \in DOMAIN labels

\* getSourceSecrets: List with the label selector push-to-k8s=source.
getSourceSecrets(st, sourceNamespace) ==
    LET listed == SelectSeq(NameOrder, LAMBDA n :
                     /\ <<sourceNamespace, n>> \in DOMAIN st.secrets
                     /\ HasLabel(st.secrets[<<sourceNamespace, n>>].labels, MarkerKey)
                     /\ st.secrets[<<sourceNamespace, n>>].labels[MarkerKey] = MarkerValue)
    IN [i \in 1..Len(listed) |-> st.secrets[<<sourceNamespace, listed[i]>>]]

equalByteMaps(a, b) ==
    /\ Cardinality(DOMAIN a) = Cardinality(DOMAIN b)
    /\ \A key \in DOMAIN a : key \in DOMAIN b /\ a[key] = b[key]

equalStringMaps(a, b) ==
    /\ Cardinality(DOMAIN a) = Cardinality(DOMAIN b)
    /\ \A key \in DOMAIN a : key \in DOMAIN b /\ a[key] = b[key]

\* A comparison that also takes the labels into account.
compareSecrets_WithLabels(existingSecret, sourceSecret) ==
    /\ equalByteMaps(existingSecret.data, sourceSecret.data)
    /\ equalStringMaps(existingSecret.stringData, sourceSecret.stringData)
    /\ existingSecret.labels = sourceSecret.labels

compareSecrets(existingSecret, sourceSecret) ==
    /\ equalByteMaps(existingSecret.data, sourceSecret.data)
    /\ equalStringMaps(existingSecret.stringData, sourceSecret.stringData)

\* delete(sourceSecretCopy.Labels, "push-to-k8s")
WithoutMarker(labels) == Without(labels, MarkerKey)

\* The exclusion test of syncSecretToNamespace, after its Namespaces().Get: the
\* key's existence in the labels of the object the Get returned.  When the Get
\* returned an error (getErr) the test is not taken: nothing is excluded.
ExcludedInSyncSecretToNamespace(getErr, nss, namespace, excl) ==
    /\ excl # ""
    /\ ~getErr
    /\ HasLabel(nss[namespace], excl)

\* Mutant: the Update request carries the UID of the replica it replaces.
UpdateRequest_ReplicaUID(sourceSecret, existingSecret, namespace) ==
    [sourceSecret EXCEPT !.namespace = namespace,
                         !.uid = existingSecret.uid,
                         !.rv = existingSecret.rv,
                         !.labels = WithoutMarker(@)]

\* Mutant: the Update request keeps the resource version of the source secret.
UpdateRequest_SourceVersion(sourceSecret, existingSecret, namespace) ==
    [sourceSecret EXCEPT !.namespace = namespace,
                         !.labels = WithoutMarker(@)]

\* The object syncSecretToNamespace sends to Update: a copy of the SOURCE secret
\* with the namespace, the resource version and the labels adjusted.
UpdateRequest(sourceSecret, existingSecret, namespace) ==
    [sourceSecret EXCEPT !.namespace = namespace,
                         !.rv = existingSecret.rv,
                         !.labels = WithoutMarker(@)]

\* The object syncSecretToNamespace sends to Create.
CreateRequest(sourceSecret, namespace) ==
    [sourceSecret EXCEPT !.namespace = namespace,
                         !.rv = NoRV,
                         !.labels = WithoutMarker(@)]

\* Namespaces().List
ListNamespaces(nss) == SelectSeq(NsOrder, LAMBDA n : n \in DOMAIN nss)

\* The exclusion test inside the loop of SyncSecrets.
ExcludedInSyncSecrets(labels, excl) == excl # "" /\ HasLabel(labels, excl)

\* Secrets(ns).Get: <<>> for not found, <<object>> otherwise.
GetSecret(st, ns, name) ==
    IF <<ns, name>> \in DOMAIN st.secrets THEN <<st.secrets[<<ns, name>>]>> ELSE <<>>

\* The exclusion test of the namespace informer's AddFunc, on the event's object.
ExcludedInAddFunc(labels, excl) == excl # "" /\ HasLabel(labels, excl)

\* The exclusion test inside the loop of syncSingleSecretToAllNamespaces.
ExcludedInSyncSingle(labels, excl) == excl # "" /\ HasLabel(labels, excl)

\* The exclusion test inside the loop of deleteSingleSecretFromAllNamespaces.
ExcludedInDeleteSingle(labels, excl) == excl # "" /\ HasLabel(labels, excl)

\* Mutant: the delete loop does not skip the source namespace.
SkippedInDeleteSingle_NoSourceCheck(ns, labels, sourceNamespace, excl) ==
    ExcludedInDeleteSingle(labels, excl)

\* Whether the loop of deleteSingleSecretFromAllNamespaces skips namespace ns.
SkippedInDeleteSingle(ns, labels, sourceNamespace, excl) ==
    ns = sourceNamespace \/ ExcludedInDeleteSingle(labels, excl)

----------------------------------------------------------------------------
(* The cluster and its external actor *)

Op(op, ns, name) == [op |-> op, ns |-> ns, name |-> name]

NsEvent(name, labels) == [name |-> name, labels |-> labels]

NewSourceSecret(name, data) ==
    [name |-> name, namespace |-> SourceNamespace, data |-> data, stringData |-> EmptyMap,
     labels |-> MarkerLabels, uid |-> NoUID, rv |-> NoRV]

\* A request to the API server and its answer: verb "list", "get", "create",
\* "update" or "delete" on kind "secrets" or "namespaces"; or a Wait on the rate
\* limiter and its outcome: verb "wait" on kind "rateLimiter".
Req(verb, kind, ns, name, result) ==
    [verb |-> verb, kind |-> kind, ns |-> ns, name |-> name, result |-> result]

NoReq == Req("none", "", "", "", "")

\* A fault of the API server that lasts for one call of the controller: the
\* requests of the call with this verb, kind, namespace and name are answered
\* with an error that is none of the store's own (a timeout, a refusal).
Fault(verb, kind, ns, name) == [verb |-> verb, kind |-> kind, ns |-> ns, name |-> name]

NoFault == Fault("none", "", "", "")

\* What a call of the controller leaves in lastOp when it returns: req is the
\* request of the step in which it returned, interfered tells whether anybody
\* else changed the cluster while the call ran, waited holds the events for
\* which the call had got a token from the rate limiter when it sent that
\* request.
Returned(op, ns, name) ==
    [op |-> op, ns |-> ns, name |-> name, req |-> NoReq, interfered |-> FALSE, waited |-> <<>>]

\* The goroutines that call into pkg/k8s: startPeriodicSync's, the one on which
\* the namespace informer runs its handlers, processDebouncedSecretQueue's, and a
\* caller of single functions.
Goroutines == {"periodic", "nsInformer", "debouncer", "caller"}

\* The locals of a goroutine inside a call: fn is the function whose loop it is
\* in, pc the request it is about to send, ret what it publishes on return.
IdleFrame ==
    [ret |-> Returned("idle", "", ""), fn |-> "", pc |-> "idle", sourceNamespace |-> "",
     sourceSecrets |-> <<>>, i |-> 0, items |-> <<>>, j |-> 0, name |-> "",
     existing |-> <<>>, fault |-> NoFault, events |-> <<>>, k |-> 0, waited |-> <<>>,
     calls |-> <<>>, interfered |-> FALSE]

Active(f) == f.pc # "idle"

\* Somebody changes the cluster: every call in progress has been interfered with.
Disturbed(fs) ==
    [g \in DOMAIN fs |-> IF Active(fs[g]) THEN [fs[g] EXCEPT !.interfered = TRUE] ELSE fs[g]]

NoChange == [kind |-> "none", name |-> "", windowPassed |-> FALSE]

\* The state at the start of the controller, in a cluster that has the source
\* namespace and the namespaces targets, none of them labelled, and the secrets
\* held; the namespace informer has an Add notification for every namespace.
InitClusterWith(targets, held) ==
    /\ excludeNamespaceLabel \in {"", ExcludeKey}
    /\ namespaces = [ns \in {SourceNamespace} \cup targets |-> EmptyMap]
    /\ secrets = held
    /\ rev = 0
    /\ nsEvents = {NsEvent(ns, EmptyMap) : ns \in {SourceNamespace} \cup targets}
    /\ calls = <<>>
    /\ lastOp = Op("init", "", "")
    /\ watcher = "idle"
    /\ debouncer = "none"
    /\ ctxDone = FALSE
    /\ eventQueue = <<>>
    /\ queueClosed = FALSE
    /\ informerCache = [k \in {} |-> EmptyMap]
    /\ timer = "nil"
    /\ pendingEvents = [k \in {} |-> EmptyMap]
    /\ emitted = <<>>
    /\ applied = <<>>
    /\ batches = 0
    /\ periodic = "initial"
    /\ sourceChange = NoChange
    /\ sweptSinceChange = FALSE
    /\ mainPC = "start"
    /\ wgRunning = {}
    /\ nsWatcher = "none"
    /\ frames = [g \in Goroutines |-> IdleFrame]

\* The start in a cluster without secrets.
InitCluster(targets) == InitClusterWith(targets, [k \in {} |-> EmptyMap])

Init == InitCluster({"ns1"})

\* The cluster with a second namespace that may receive replicas.
InitTwo == InitCluster({"ns1", "ns2"})

\* An external actor creates a labelled secret in the source namespace.
CreateSource(name, data) ==
    /\ rev < MaxRev
    /\ <<SourceNamespace, name>> \notin DOMAIN secrets
    /\ secrets' = (<<SourceNamespace, name>> :>
                     [NewSourceSecret(name, data) EXCEPT !.uid = rev + 1, !.rv = rev + 1])
                  @@ secrets
    /\ rev' = rev + 1
    /\ calls' = <<>>
    /\ lastOp' = Op("envCreateSource", SourceNamespace, name)
    /\ UNCHANGED <<excludeNamespaceLabel, namespaces, nsEvents>>
    /\ frames' = Disturbed(frames)

\* An external actor changes the Data of a source secret.
UpdateSource(name, data) ==
    /\ rev < MaxRev
    /\ <<SourceNamespace, name>> \in DOMAIN secrets
    /\ secrets[<<SourceNamespace, name>>].data # data
    /\ secrets' = [secrets EXCEPT ![<<SourceNamespace, name>>].data = data,
                                  ![<<SourceNamespace, name>>].rv = rev + 1]
    /\ rev' = rev + 1
    /\ calls' = <<>>
    /\ lastOp' = Op("envUpdateSource", SourceNamespace, name)
    /\ UNCHANGED <<excludeNamespaceLabel, namespaces, nsEvents>>
    /\ frames' = Disturbed(frames)

\* An external actor deletes a source secret.
DeleteSource(name) ==
    /\ rev < MaxRev
    /\ <<SourceNamespace, name>> \in DOMAIN secrets
    /\ secrets' = Without(secrets, <<SourceNamespace, name>>)
    /\ rev' = rev + 1
    /\ calls' = <<>>
    /\ lastOp' = Op("envDeleteSource", SourceNamespace, name)
    /\ UNCHANGED <<excludeNamespaceLabel, namespaces, nsEvents>>
    /\ frames' = Disturbed(frames)

\* An external actor changes only the metadata of a source secret: a label that
\* is not the marker.  Data and StringData stay as they are.
TouchSource(name, note) ==
    /\ rev < MaxRev
    /\ <<SourceNamespace, name>> \in DOMAIN secrets
    /\ LET labels == secrets[<<SourceNamespace, name>>].labels IN
       /\ ~(HasLabel(labels, NoteKey) /\ labels[NoteKey] = note)
       /\ secrets' = [secrets EXCEPT
                         ![<<SourceNamespace, name>>].labels =
                             (NoteKey :> note) @@ Without(labels, NoteKey),
                         ![<<SourceNamespace, name>>].rv = rev + 1]
    /\ rev' = rev + 1
    /\ calls' = <<>>
    /\ lastOp' = Op("envTouchSource", SourceNamespace, name)
    /\ UNCHANGED <<excludeNamespaceLabel, namespaces, nsEvents>>
    /\ frames' = Disturbed(frames)

\* An external actor creates a namespace; the namespace informer notes the Add.
CreateNamespace(ns, labels) ==
    /\ ns \notin DOMAIN namespaces
    /\ namespaces' = (ns :> labels) @@ namespaces
    /\ nsEvents' = nsEvents \cup {NsEvent(ns, labels)}
    /\ calls' = <<>>
    /\ lastOp' = Op("envCreateNamespace", ns, "")
    /\ UNCHANGED <<excludeNamespaceLabel, secrets, rev>>
    /\ frames' = Disturbed(frames)

\* An external actor puts the exclusion label on an existing namespace.
LabelNamespace(ns, labels) ==
    /\ ns \in DOMAIN namespaces
    /\ ns # SourceNamespace
    /\ namespaces[ns] = EmptyMap
    /\ labels # EmptyMap
    /\ namespaces' = [namespaces EXCEPT ![ns] = labels]
    /\ calls' = <<>>
    /\ lastOp' = Op("envLabelNamespace", ns, "")
    /\ UNCHANGED <<excludeNamespaceLabel, secrets, rev, nsEvents>>
    /\ frames' = Disturbed(frames)

\* A namespace that may receive replicas (spec 4.1).
EligibleNamespace(ns) ==
    /\ ns \in DOMAIN namespaces
    /\ ns # SourceNamespace
    /\ ~(excludeNamespaceLabel # "" /\ HasLabel(namespaces[ns], excludeNamespaceLabel))

LabelledSource(name) ==
    /\ <<SourceNamespace, name>> \in DOMAIN secrets
    /\ HasLabel(secrets[<<SourceNamespace, name>>].labels, MarkerKey)
    /\ secrets[<<SourceNamespace, name>>].labels[MarkerKey] = MarkerValue

ReplicaMatches(ns, name) ==
    /\ <<ns, name>> \in DOMAIN secrets
    /\ equalByteMaps(secrets[<<ns, name>>].data, secrets[<<SourceNamespace, name>>].data)

Converged ==
    \A name \in SecretNames : LabelledSource(name) =>
        \A ns \in NsNames : EligibleNamespace(ns) => ReplicaMatches(ns, name)

Frame == UNCHANGED <<watcherVars, mainVars>>

EnvCreateSource(name, data) == CreateSource(name, data) /\ Frame
EnvUpdateSource(name, data) == UpdateSource(name, data) /\ Frame
EnvDeleteSource(name) == DeleteSource(name) /\ Frame
EnvTouchSource(name, note) == TouchSource(name, note) /\ Frame
EnvCreateNamespace(ns, labels) == CreateNamespace(ns, labels) /\ Frame
EnvLabelNamespace(ns, labels) == LabelNamespace(ns, labels) /\ Frame

Env ==
    \/ \E name \in SecretNames, data \in DataValues : EnvCreateSource(name, data)
    \/ \E name \in SecretNames, data \in DataValues : EnvUpdateSource(name, data)
    \/ \E name \in SecretNames : EnvDeleteSource(name)
    \/ \E ns \in NsNames, labels \in NsLabelValues : EnvCreateNamespace(ns, labels)
    \/ \E ns \in NsNames, labels \in NsLabelValues : EnvLabelNamespace(ns, labels)

----------------------------------------------------------------------------
(* The debouncer's events *)

QueueCap == 100

\* A *v1.Secret is a sequence: <<>> for nil, <<object>> otherwise.
NilSecret == <<>>

SecretEvent(eventType, secret, name) ==
    [EventType |-> eventType, Secret |-> secret, Name |-> name]

\* What a receive from the closed, drained queue yields.
ZeroEvent == SecretEvent("", NilSecret, "")

\* rateLimiter.Wait(ctx): a token, or an error once the context is cancelled.
RateLimiterWait(done) == ~done

\* The pending map after the debouncer has received an event.
ReceiveEvent(pending, event) ==
    IF event.EventType = "delete" THEN (event.Name :> event) @@ pending
    ELSE IF event.Secret # NilSecret THEN (event.Secret[1].name :> event) @@ pending
    ELSE pending

\* An UpdateFunc that sends an update event for every update it is told of.
CallbackEvents_AlwaysUpdate(name, finalStateUnknown) ==
    IF LabelledSource(name)
    THEN LET obj == secrets[<<SourceNamespace, name>>] IN
         IF name \notin DOMAIN informerCache
         THEN <<SecretEvent("add", <<obj>>, name)>>
         ELSE <<SecretEvent("update", <<obj>>, name)>>
    ELSE IF finalStateUnknown THEN <<>>
    ELSE <<SecretEvent("delete", NilSecret, name)>>

\* The event a callback of the secret informer sends for the secret named name:
\* AddFunc, UpdateFunc (nothing when Data and StringData are unchanged) or
\* DeleteFunc.  The informer, which selects on the marker label, hands
\* DeleteFunc the last object it knew, or, when it missed the deletion and
\* learnt of it from a re-list, a cache.DeletedFinalStateUnknown: the cast to
\* *v1.Secret then fails and nothing is sent.
CallbackEvents(name, finalStateUnknown) ==
    IF LabelledSource(name)
    THEN LET obj == secrets[<<SourceNamespace, name>>] IN
         IF name \notin DOMAIN informerCache
         THEN <<SecretEvent("add", <<obj>>, name)>>
         ELSE IF ~compareSecrets(informerCache[name], obj)
         THEN <<SecretEvent("update", <<obj>>, name)>>
         ELSE <<>>
    ELSE IF finalStateUnknown THEN <<>>
    ELSE <<SecretEvent("delete", NilSecret, name)>>

\* The informer has something to notify about the secret named name.
Notifiable(name) ==
    IF ~LabelledSource(name) THEN name \in DOMAIN informerCache
    ELSE IF name \notin DOMAIN informerCache THEN TRUE
    ELSE informerCache[name] # secrets[<<SourceNamespace, name>>]

\* The informer's store after the notification.
Notified(name) ==
    IF LabelledSource(name)
    THEN (name :> secrets[<<SourceNamespace, name>>]) @@ informerCache
    ELSE Without(informerCache, name)

----------------------------------------------------------------------------
(* Calls in progress: one request to the API server per step *)

\* The first request of a loop body: syncSecretToNamespace starts with the Get of
\* the namespace when an exclusion label is configured, else with the Get of
\* the replica; the delete loop sends its Delete.
FirstRequest(fn, excl) ==
    IF fn = "deleteSingleSecretFromAllNamespaces" THEN "delete"
    ELSE IF excl # "" THEN "getNamespace" ELSE "getSecret"

\* Whether the loop of fn over its listing skips the namespace ns.
SkippedInLoop(fn, ns, labels, sourceNamespace, excl) ==
    IF fn = "SyncSecrets"
    THEN ns = sourceNamespace \/ ExcludedInSyncSecrets(labels, excl)
    ELSE IF fn = "syncSingleSecretToAllNamespaces"
    THEN ns = sourceNamespace \/ ExcludedInSyncSingle(labels, excl)
    ELSE SkippedInDeleteSingle(ns, labels, sourceNamespace, excl)

\* The namespaces of the listing nss that the loop of fn goes into.  The labels
\* of a listed namespace are those of the listing: the tests of the loop give
\* the same answer whenever they are taken.
LoopNamespaces(fn, nss, sourceNamespace, excl) ==
    SelectSeq(ListNamespaces(nss),
              LAMBDA ns : ~SkippedInLoop(fn, ns, nss[ns], sourceNamespace, excl))

ClearLocals(f) ==
    [f EXCEPT !.fn = "", !.sourceSecrets = <<>>, !.i = 0, !.items = <<>>, !.j = 0,
              !.name = "", !.existing = <<>>]

\* processBatch's loop at its k-th event: at the Wait of that event, or at the
\* end of the loop, after which the function returns.  A call that is not a
\* batch has no events and returns.
NextEvent(f, k) ==
    IF k > Len(f.events) THEN [f EXCEPT !.pc = "returned", !.k = k]
    ELSE [f EXCEPT !.pc = "wait", !.k = k]

\* The function the goroutine is in returns to its caller.
LeaveCall(f) == NextEvent(ClearLocals(f), f.k + 1)

\* processBatch after the Wait of its k-th event: continue when the Wait failed;
\* otherwise the switch on the event type, up to the first request of the
\* function it calls, or the next event when it calls none.
AfterWait(f, done) ==
    LET event == f.events[f.k]
        g == [f EXCEPT !.waited = Append(@, event)]
    IN IF ~RateLimiterWait(done) THEN NextEvent(f, f.k + 1)
       ELSE IF event.EventType \in {"add", "update"}
       THEN IF event.Secret # NilSecret
            THEN [g EXCEPT !.fn = "syncSingleSecretToAllNamespaces",
                           !.sourceSecrets = event.Secret,
                           !.pc = "listNamespaces"]
            ELSE NextEvent(g, f.k + 1)
       ELSE IF event.EventType = "delete"
       THEN [g EXCEPT !.fn = "deleteSingleSecretFromAllNamespaces",
                      !.name = event.Name,
                      !.pc = "listNamespaces"]
       ELSE NextEvent(g, f.k + 1)

\* The loops over the listings: the next namespace, then the next secret.
NextPair(f, excl) ==
    IF f.j < Len(f.items)
    THEN [f EXCEPT !.j = @ + 1, !.existing = <<>>, !.pc = FirstRequest(f.fn, excl)]
    ELSE IF f.i < Len(f.sourceSecrets)
    THEN [f EXCEPT !.i = @ + 1, !.j = 1, !.existing = <<>>, !.pc = FirstRequest(f.fn, excl)]
    ELSE LeaveCall(f)

\* The listings are in: the loops start, or end at once when one is empty.
EnterLoop(f, excl) ==
    IF \/ Len(f.items) = 0
       \/ (f.fn # "deleteSingleSecretFromAllNamespaces" /\ Len(f.sourceSecrets) = 0)
    THEN LeaveCall(f)
    ELSE [f EXCEPT !.i = 1, !.j = 1, !.pc = FirstRequest(f.fn, excl)]

\* A loop that ends at the first request that is not answered ok.
LoopGoesOn_StopOnError(fn, result) == result = "ok"

\* A delete loop that ends at a Delete answered not-found.
LoopGoesOn_NotFoundFatal(fn, result) ==
    ~(fn = "deleteSingleSecretFromAllNamespaces" /\ result = "NotFound")

\* Every loop logs the error of a request and goes on with its next item.
LoopGoesOn(fn, result) == TRUE

AfterRequest(f, result, excl) ==
    IF LoopGoesOn(f.fn, result) THEN NextPair(f, excl) ELSE LeaveCall(f)

\* The request of the call with this verb, kind, namespace and name is answered
\* with an error of the API server.
Fails(fault, verb, kind, ns, name) == fault = Fault(verb, kind, ns, name)

\* A write request that the API server answers with an error: the store stays
\* as it is.
ServerError(st, verb, ns, obj) ==
    [st EXCEPT !.calls = Append(@, Call(verb, ns, obj, NoUID, "ServerError"))]

\* The write of syncSecretToNamespace: Update when its Get found a replica, which
\* then differed from the source; Create otherwise.
syncSecretToNamespaceWrite(st, sourceSecret, namespace, existing, fault) ==
    IF existing # <<>>
    THEN LET obj == UpdateRequest(sourceSecret, existing[1], namespace)
         IN IF Fails(fault, "update", "secrets", namespace, obj.name)
            THEN ServerError(st, "update", namespace, obj)
            ELSE StoreUpdate(st, namespace, obj)
    ELSE LET obj == CreateRequest(sourceSecret, namespace)
         IN IF Fails(fault, "create", "secrets", namespace, obj.name)
            THEN ServerError(st, "create", namespace, obj)
            ELSE StoreCreate(st, namespace, obj)

\* Secrets(ns).Delete as the delete loop sends it.
deleteSingleSecretDelete(st, namespace, name, fault) ==
    IF Fails(fault, "delete", "secrets", namespace, name)
    THEN ServerError(st, "delete", namespace, [name |-> name, uid |-> NoUID, rv |-> NoRV])
    ELSE StoreDelete(st, namespace, name)

Stepped(f, st, req) == [f |-> [f EXCEPT !.calls = st.calls], st |-> st, req |-> req]

\* One step of the call f over the store st (whose calls are f's) and the
\* namespaces nss: the request f is at is sent and answered (or the Wait on the
\* rate limiter it is at returns), and the goroutine runs on to its next
\* request, its next Wait or to the return.  A List that fails ends the
\* function; a Get of the namespace that fails, or that finds the namespace
\* gone, leaves the exclusion test out and the function goes on to the Get of
\* the replica; any error of that Get leads to the Create.
Step(f, st, nss, excl, done) ==
    IF f.pc = "listSecrets"
    THEN LET g == [f EXCEPT !.sourceSecrets = getSourceSecrets(st, f.sourceNamespace)]
             req == Req("list", "secrets", f.sourceNamespace, "", "ok")
         IN IF Fails(f.fault, "list", "secrets", f.sourceNamespace, "")
            THEN Stepped(LeaveCall(f), st, [req EXCEPT !.result = "ServerError"])
            ELSE IF f.fn = "SyncSecrets"
            THEN Stepped([g EXCEPT !.pc = "listNamespaces"], st, req)
            ELSE Stepped(EnterLoop(g, excl), st, req)
    ELSE IF f.pc = "listNamespaces"
    THEN LET req == Req("list", "namespaces", "", "", "ok")
         IN IF Fails(f.fault, "list", "namespaces", "", "")
            THEN Stepped(LeaveCall(f), st, [req EXCEPT !.result = "ServerError"])
            ELSE Stepped(EnterLoop([f EXCEPT !.items = LoopNamespaces(f.fn, nss,
                                                            f.sourceNamespace, excl)],
                                   excl),
                         st, req)
    ELSE IF f.pc = "getNamespace"
    THEN LET namespace == f.items[f.j]
             result == IF Fails(f.fault, "get", "namespaces", "", namespace) THEN "ServerError"
                       ELSE IF namespace \notin DOMAIN nss THEN "NotFound" ELSE "ok"
             req == Req("get", "namespaces", "", namespace, result)
         IN IF ExcludedInSyncSecretToNamespace(result # "ok", nss, namespace, excl)
            THEN Stepped(NextPair(f, excl), st, req)
            ELSE Stepped([f EXCEPT !.pc = "getSecret"], st, req)
    ELSE IF f.pc = "getSecret"
    THEN LET namespace == f.items[f.j]
             sourceSecret == f.sourceSecrets[f.i]
             getFails == Fails(f.fault, "get", "secrets", namespace, sourceSecret.name)
             existing == IF getFails THEN <<>> ELSE GetSecret(st, namespace, sourceSecret.name)
             result == IF getFails THEN "ServerError"
                       ELSE IF existing = <<>> THEN "NotFound" ELSE "ok"
             req == Req("get", "secrets", namespace, sourceSecret.name, result)
         IN IF existing # <<>> /\ compareSecrets(existing[1], sourceSecret)
            THEN Stepped(NextPair(f, excl), st, req)
            ELSE Stepped([f EXCEPT !.existing = existing, !.pc = "write"], st, req)
    ELSE IF f.pc = "write"
    THEN LET namespace == f.items[f.j]
             sourceSecret == f.sourceSecrets[f.i]
             after == syncSecretToNamespaceWrite(st, sourceSecret, namespace, f.existing,
                                                 f.fault)
             call == after.calls[Len(after.calls)]
         IN Stepped(AfterRequest(f, call.result, excl), after,
                    Req(call.verb, "secrets", namespace, sourceSecret.name, call.result))
    ELSE IF f.pc = "delete"
    THEN LET namespace == f.items[f.j]
             after == deleteSingleSecretDelete(st, namespace, f.name, f.fault)
             call == after.calls[Len(after.calls)]
         IN Stepped(AfterRequest(f, call.result, excl), after,
                    Req("delete", "secrets", namespace, f.name, call.result))
    ELSE IF f.pc = "wait"
    THEN Stepped(AfterWait(f, done), st,
                 Req("wait", "rateLimiter", "", f.events[f.k].Name,
                     IF RateLimiterWait(done) THEN "ok" ELSE "Cancelled"))
    ELSE Stepped(f, st, NoReq)

\* The calls as their callers make them.
NewCall(ret, fn, pc, sourceNamespace) ==
    [IdleFrame EXCEPT !.ret = ret, !.fn = fn, !.pc = pc, !.sourceNamespace = sourceNamespace]

\* A sweep that removes the replicas of the first secret name from every
\* namespace instead of writing them.
SyncSecretsCall_Prune(ret, sourceNamespace) ==
    [NewCall(ret, "deleteSingleSecretFromAllNamespaces", "listNamespaces", sourceNamespace)
        EXCEPT !.name = NameOrder[1]]

SyncSecretsCall(ret, sourceNamespace) ==
    NewCall(ret, "SyncSecrets", "listSecrets", sourceNamespace)

syncSecretsToSingleNamespaceCall(ret, sourceNamespace, targetNamespace) ==
    [NewCall(ret, "syncSecretsToSingleNamespace", "listSecrets", sourceNamespace)
        EXCEPT !.items = <<targetNamespace>>]

\* A handler that answers the Add of one namespace with a sweep over all.
NamespaceAddFuncCall_FullSweep(ret, ns, sourceNamespace, excl) ==
    IF ns.name = sourceNamespace \/ ExcludedInAddFunc(ns.labels, excl)
    THEN NewCall(ret, "", "returned", sourceNamespace)
    ELSE SyncSecretsCall(ret, sourceNamespace)

\* WatchNamespaces' AddFunc for the namespace object ns = [name, labels]: it
\* returns without a request for the source namespace and for an object that
\* carries the exclusion label.
NamespaceAddFuncCall(ret, ns, sourceNamespace, excl) ==
    IF ns.name = sourceNamespace \/ ExcludedInAddFunc(ns.labels, excl)
    THEN NewCall(ret, "", "returned", sourceNamespace)
    ELSE syncSecretsToSingleNamespaceCall(ret, sourceNamespace, ns.name)

syncSecretToNamespaceCall(ret, sourceSecret, namespace, excl) ==
    [NewCall(ret, "syncSecretToNamespace", FirstRequest("syncSecretToNamespace", excl), "")
        EXCEPT !.sourceSecrets = <<sourceSecret>>, !.i = 1, !.items = <<namespace>>, !.j = 1]

\* The call f made while the API server has the fault.
WithFault(f, fault) == [f EXCEPT !.fault = fault]

\* processBatch over the pending events, in the order events: it returns at
\* once when there is none, and is at the Wait of the first otherwise.
processBatchCall(ret, events, sourceNamespace) ==
    NextEvent([NewCall(ret, "", "returned", sourceNamespace) EXCEPT !.events = events], 1)

\* Goroutine g, in the call f, sends the request f is at and runs on to its
\* next request or to the return of the call.  Another call in progress has
\* been interfered with when the request changed a secret.  lastOp tells of the
\* step: what the call publishes on return, with op "Request" and the call's own
\* op in by as long as the call has not returned.
Proceed(g, f) ==
    LET r == Step(f, Store(secrets, rev, f.calls), namespaces, excludeNamespaceLabel, ctxDone)
        others == IF r.st.secrets # secrets THEN Disturbed(frames) ELSE frames
    IN /\ r.st.rev <= MaxRev
       /\ secrets' = r.st.secrets
       /\ rev' = r.st.rev
       /\ calls' = r.f.calls
       /\ IF r.f.pc = "returned"
          THEN /\ lastOp' = [r.f.ret EXCEPT !.req = r.req, !.interfered = f.interfered,
                                            !.waited = r.f.waited]
               /\ frames' = [others EXCEPT ![g] = IdleFrame]
          ELSE /\ lastOp' = [f.ret EXCEPT !.op = "Request", !.req = r.req,
                                          !.interfered = f.interfered,
                                          !.waited = r.f.waited]
                             @@ [by |-> f.ret.op]
               /\ frames' = [others EXCEPT ![g] = r.f]

\* The call f after its next step, and whether it returns with that step.
Next1(f) ==
    Step(f, Store(secrets, rev, f.calls), namespaces, excludeNamespaceLabel, ctxDone).f

Returns(f) == Next1(f).pc = "returned"

----------------------------------------------------------------------------
(* The operations of pkg/k8s, one request to the API server per step *)

\* Goroutine g calls into pkg/k8s: the call f up to the answer of its first
\* request (or to its return, when it sends none).
Enter(g, f) ==
    /\ ~Active(frames[g])
    /\ Proceed(g, f)
    /\ UNCHANGED <<excludeNamespaceLabel, namespaces>>

\* Goroutine g goes on with the call it is in: its next request.
Request(g) ==
    /\ Active(frames[g])
    /\ Proceed(g, frames[g])
    /\ UNCHANGED <<excludeNamespaceLabel, namespaces>>

\* SyncSecrets is called.
DoSyncSecrets ==
    /\ Enter("periodic", SyncSecretsCall(Returned("SyncSecrets", "", ""), SourceNamespace))
    /\ UNCHANGED nsEvents
    /\ Frame

\* The namespace informer delivers one Add notification to AddFunc, while the
\* API server has the fault.
DoNamespaceAdd(e, fault) ==
    /\ e \in nsEvents
    /\ nsEvents' = nsEvents \ {e}
    /\ Enter("nsInformer",
             WithFault(NamespaceAddFuncCall(Returned("NamespaceAdd", e.name, "")
                                              @@ [labels |-> e.labels],
                                            e, SourceNamespace, excludeNamespaceLabel),
                       fault))
    /\ Frame

\* The sweep, the handler of the namespace informer or a single call sends its
\* next request.
DoRequest(g) ==
    /\ g # "debouncer"
    /\ Request(g)
    /\ UNCHANGED nsEvents
    /\ Frame

\* The orders in which processBatch's range may yield the pending events: Go
\* iterates a map in an order it leaves unspecified, so every arrangement of the
\* entries is one.
PendingOrders(pending) ==
    LET n == Cardinality(DOMAIN pending)
        keys == {s \in [1..n -> DOMAIN pending] : \A i, j \in 1..n : s[i] = s[j] => i = j}
    IN {[i \in 1..n |-> pending[s[i]]] : s \in keys}

NoPending == [k \in {} |-> EmptyMap]

\* Spec: SyncSecrets, request by request, over a cluster an external actor keeps
\* changing.
Next ==
    \/ Env
    \/ DoSyncSecrets
    \/ DoRequest("periodic")

Spec == Init /\ [][Next]_vars

\* SpecAdd: the Add handler of the namespace informer, request by request.
NextAdd ==
    \/ Env
    \/ \E e \in nsEvents : DoNamespaceAdd(e, NoFault)
    \/ DoRequest("nsInformer")

SpecAdd == Init /\ [][NextAdd]_vars

\* An external actor copies a source secret as it is, labels included, into
\* another namespace.
EnvCopySecret(ns, name) ==
    /\ rev < MaxRev
    /\ <<SourceNamespace, name>> \in DOMAIN secrets
    /\ ns \in DOMAIN namespaces \ {SourceNamespace}
    /\ <<ns, name>> \notin DOMAIN secrets
    /\ secrets' = (<<ns, name>> :> [secrets[<<SourceNamespace, name>>] EXCEPT
                                      !.namespace = ns, !.uid = rev + 1, !.rv = rev + 1])
                  @@ secrets
    /\ rev' = rev + 1
    /\ calls' = <<>>
    /\ lastOp' = Op("envCopySecret", ns, name)
    /\ UNCHANGED <<excludeNamespaceLabel, namespaces, nsEvents>>
    /\ Frame
    /\ frames' = Disturbed(frames)

\* An external actor changes the Data of a secret outside the source namespace.
EnvEditReplica(ns, name, data) ==
    /\ rev < MaxRev
    /\ ns # SourceNamespace
    /\ <<ns, name>> \in DOMAIN secrets
    /\ secrets[<<ns, name>>].data # data
    /\ secrets' = [secrets EXCEPT ![<<ns, name>>].data = data, ![<<ns, name>>].rv = rev + 1]
    /\ rev' = rev + 1
    /\ calls' = <<>>
    /\ lastOp' = Op("envEditReplica", ns, name)
    /\ UNCHANGED <<excludeNamespaceLabel, namespaces, nsEvents>>
    /\ Frame
    /\ frames' = Disturbed(frames)

\* An external actor takes the marker label off a source secret.
EnvUnlabelSource(name) ==
    /\ rev < MaxRev
    /\ LabelledSource(name)
    /\ secrets' = [secrets EXCEPT ![<<SourceNamespace, name>>].labels = WithoutMarker(@),
                                  ![<<SourceNamespace, name>>].rv = rev + 1]
    /\ rev' = rev + 1
    /\ calls' = <<>>
    /\ lastOp' = Op("envUnlabelSource", SourceNamespace, name)
    /\ UNCHANGED <<excludeNamespaceLabel, namespaces, nsEvents>>
    /\ Frame
    /\ frames' = Disturbed(frames)

syncSingleSecretToAllNamespacesCall(ret, secret, sourceNamespace) ==
    [NewCall(ret, "syncSingleSecretToAllNamespaces", "listNamespaces", sourceNamespace)
        EXCEPT !.sourceSecrets = <<secret>>]

\* syncSingleSecretToAllNamespaces is called with the source secret named name as
\* it is at the time of the call, while the API server has the fault; the
\* function keeps that copy while the source secret is changed.
DoSyncSingleSecret(name, fault) ==
    /\ LabelledSource(name)
    /\ LET secret == secrets[<<SourceNamespace, name>>]
       IN Enter("caller",
                WithFault(syncSingleSecretToAllNamespacesCall(
                              Returned("syncSingleSecret", "", name) @@ [secret |-> secret],
                              secret, SourceNamespace),
                          fault))
    /\ UNCHANGED nsEvents
    /\ Frame

deleteSingleSecretFromAllNamespacesCall(ret, secretName, sourceNamespace) ==
    [NewCall(ret, "deleteSingleSecretFromAllNamespaces", "listNamespaces", sourceNamespace)
        EXCEPT !.name = secretName]

\* deleteSingleSecretFromAllNamespaces is called for a name, while the API
\* server has the fault.
DoDeleteSingleSecret(name, fault) ==
    /\ Enter("caller",
             WithFault(deleteSingleSecretFromAllNamespacesCall(
                           Returned("deleteSingleSecret", "", name)
                             @@ [again |-> FALSE, before |-> secrets],
                           name, SourceNamespace),
                       fault))
    /\ UNCHANGED nsEvents
    /\ Frame

\* SyncSecrets is called by the caller of the single functions, while the API
\* server has the fault.
DoSyncSecretsDirect(fault) ==
    /\ Enter("caller",
             WithFault(SyncSecretsCall(Returned("SyncSecrets", "", ""), SourceNamespace),
                       fault))
    /\ UNCHANGED nsEvents
    /\ Frame

\* SpecPaths: the functions of the package that write secrets, called one
\* after another by one caller while the namespace informer runs its Add
\* handler, with the external actor and the other goroutine acting between any
\* two requests of a call.  The Get of the namespace that the handler sends
\* through syncSecretToNamespace when an exclusion label is configured is
\* answered by the store or with an error.
NextPaths ==
    \/ \E name \in SecretNames, data \in DataValues : EnvCreateSource(name, data)
    \/ \E name \in SecretNames, data \in DataValues : EnvUpdateSource(name, data)
    \/ \E ns \in NsNames, labels \in NsLabelValues : EnvLabelNamespace(ns, labels)
    \/ DoSyncSecretsDirect(NoFault)
    \/ \E e \in nsEvents :
          \E fault \in IF excludeNamespaceLabel = "" THEN {NoFault}
                        ELSE {NoFault, Fault("get", "namespaces", "", e.name)} :
             DoNamespaceAdd(e, fault)
    \/ \E name \in SecretNames : DoSyncSingleSecret(name, NoFault)
    \/ \E name \in SecretNames : DoDeleteSingleSecret(name, NoFault)
    \/ DoRequest("nsInformer")
    \/ DoRequest("caller")

SpecPaths == Init /\ [][NextPaths]_vars

\* The next sweep after one whose last request was a Create answered
\* already-exists: somebody else had created the replica since the sweep's Get.
DoSyncSecretsAfterRace ==
    /\ lastOp.op = "SyncSecrets"
    /\ lastOp.req.verb = "create"
    /\ lastOp.req.result = "AlreadyExists"
    /\ Enter("periodic",
             SyncSecretsCall(Returned("SyncSecretsAfterRace", lastOp.req.ns, lastOp.req.name),
                             SourceNamespace))
    /\ UNCHANGED nsEvents
    /\ Frame

\* SpecRace: the sweep and the Add handler of the namespace informer at the same
\* time, while the source secret and the replicas are changed from outside.
NextRace ==
    \/ \E name \in SecretNames, data \in DataValues : EnvCreateSource(name, data)
    \/ \E name \in SecretNames, data \in DataValues : EnvUpdateSource(name, data)
    \/ \E ns \in NsNames, name \in SecretNames, data \in DataValues :
          EnvEditReplica(ns, name, data)
    \/ DoSyncSecrets
    \/ DoSyncSecretsAfterRace
    \/ \E e \in nsEvents : DoNamespaceAdd(e, NoFault)
    \/ \E g \in Goroutines : DoRequest(g)

SpecRace == Init /\ [][NextRace]_vars

\* SpecStale: the sweep and syncSingleSecretToAllNamespaces at the same time,
\* over a source secret that is created, changed and deleted.
NextStale ==
    \/ \E name \in SecretNames, data \in DataValues : EnvCreateSource(name, data)
    \/ \E name \in SecretNames, data \in DataValues : EnvUpdateSource(name, data)
    \/ \E name \in SecretNames : EnvDeleteSource(name)
    \/ DoSyncSecrets
    \/ DoRequest("periodic")
    \/ \E name \in SecretNames : DoSyncSingleSecret(name, NoFault)
    \/ DoRequest("caller")

SpecStale == Init /\ [][NextStale]_vars

\* SpecSweep: sweeps and delete passes at the same time, over a cluster whose
\* source secrets are deleted or lose the marker label between any two requests.
NextSweep ==
    \/ \E name \in SecretNames, data \in DataValues : EnvCreateSource(name, data)
    \/ \E name \in SecretNames : EnvDeleteSource(name)
    \/ \E name \in SecretNames : EnvUnlabelSource(name)
    \/ DoSyncSecrets
    \/ DoRequest("periodic")
    \/ \E name \in SecretNames : DoDeleteSingleSecret(name, NoFault)
    \/ DoRequest("caller")

SpecSweep == Init /\ [][NextSweep]_vars

\* The cluster as the controller finds it in SpecLoops: two labelled source
\* secrets, and in ns1 a secret of the first name with other Data that
\* somebody put there.  Their UIDs and resource versions were handed out before
\* the run and lie beyond those of the run.
HeldAtStart ==
    LET held(ns, name, data, labels, id) ==
            [name |-> name, namespace |-> ns, data |-> data, stringData |-> EmptyMap,
             labels |-> labels, uid |-> id, rv |-> id]
    IN (<<SourceNamespace, "creds">> :>
            held(SourceNamespace, "creds", ("user" :> "a"), MarkerLabels, MaxRev + 11))
       @@ (<<SourceNamespace, "token">> :>
            held(SourceNamespace, "token", ("user" :> "a"), MarkerLabels, MaxRev + 12))
       @@ (<<"ns1", "creds">> :> held("ns1", "creds", ("user" :> "b"), EmptyMap, MaxRev + 13))

InitLoops == InitClusterWith({"ns1", "ns2"}, HeldAtStart)

\* syncSecretsToSingleNamespace is called for a namespace other than the source
\* namespace, while the API server has the fault.
DoSyncSecretsToSingleNamespace(ns, fault) ==
    /\ ns \in DOMAIN namespaces \ {SourceNamespace}
    /\ Enter("caller",
             WithFault(syncSecretsToSingleNamespaceCall(
                           Returned("syncSecretsToSingleNamespace", ns, ""),
                           SourceNamespace, ns),
                       fault))
    /\ UNCHANGED nsEvents
    /\ Frame

\* The faults under which the loops are run: of the two listings, and of the
\* requests for the first pair of the listings.
ListFaults ==
    {Fault("list", "secrets", SourceNamespace, ""), Fault("list", "namespaces", "", "")}

SyncFaults ==
    {Fault("get", "namespaces", "", "ns1")}
    \cup {Fault(verb, "secrets", "ns1", "creds") : verb \in {"get", "create", "update"}}

DeleteFaults == {Fault("delete", "secrets", "ns1", "creds")}

\* SpecLoops: a caller of the four functions that loop over a listing, each
\* without a fault and under each of the faults that meet one of its requests,
\* over two source secrets and two namespaces that may receive replicas.
NextLoops ==
    \/ \E fault \in {NoFault} \cup ListFaults \cup SyncFaults : DoSyncSecretsDirect(fault)
    \/ \E name \in {"creds", "token"}, fault \in {NoFault} \cup ListFaults \cup SyncFaults :
          DoSyncSingleSecret(name, fault)
    \/ \E ns \in NsNames, fault \in {NoFault} \cup ListFaults \cup SyncFaults :
          DoSyncSecretsToSingleNamespace(ns, fault)
    \/ \E name \in {"creds", "token"}, fault \in {NoFault} \cup ListFaults \cup DeleteFaults :
          DoDeleteSingleSecret(name, fault)
    \/ DoRequest("caller")

SpecLoops == InitLoops /\ [][NextLoops]_vars

\* syncSecretToNamespace is called, by a caller that holds the current source
\* secret, for a namespace that is not the source namespace; the Get of the
\* replica may fail with an error of the API server other than not-found.
DoSyncSecretToNamespace(name, ns, getFails) ==
    /\ LabelledSource(name)
    /\ ns \in DOMAIN namespaces \ {SourceNamespace}
    /\ LET sourceSecret == secrets[<<SourceNamespace, name>>]
           ret == Returned("syncSecretToNamespace", ns, name)
                    @@ [secret |-> sourceSecret, getFails |-> getFails, again |-> FALSE]
           fault == IF getFails THEN Fault("get", "secrets", ns, name) ELSE NoFault
       IN Enter("caller", WithFault(syncSecretToNamespaceCall(ret, sourceSecret, ns,
                                                              excludeNamespaceLabel),
                                    fault))
    /\ UNCHANGED nsEvents
    /\ Frame

\* The same call once more, right after the first has returned: calls then
\* holds the requests of both, and interfered tells of both.
DoSyncSecretToNamespaceAgain ==
    /\ lastOp.op = "syncSecretToNamespace"
    /\ ~lastOp.getFails
    /\ ~lastOp.again
    /\ LET ret == [lastOp EXCEPT !.again = TRUE]
           f == syncSecretToNamespaceCall(ret, lastOp.secret, lastOp.ns,
                                          excludeNamespaceLabel)
       IN Enter("caller", [f EXCEPT !.calls = calls, !.interfered = lastOp.interfered])
    /\ UNCHANGED nsEvents
    /\ Frame

\* The same call once more, right after the first has returned.
DoDeleteSingleSecretAgain ==
    /\ lastOp.op = "deleteSingleSecret"
    /\ ~lastOp.again
    /\ LET ret == [lastOp EXCEPT !.again = TRUE, !.before = secrets]
           f == deleteSingleSecretFromAllNamespacesCall(ret, lastOp.name, SourceNamespace)
       IN Enter("caller", [f EXCEPT !.calls = calls, !.interfered = lastOp.interfered])
    /\ UNCHANGED nsEvents
    /\ Frame

\* SpecDirect: a caller of SyncSecrets, of syncSecretToNamespace and of
\* deleteSingleSecretFromAllNamespaces, the last two also called a second time,
\* over a cluster in which secrets are also copied by hand.
NextDirect ==
    \/ \E name \in SecretNames, data \in DataValues : EnvCreateSource(name, data)
    \/ \E name \in SecretNames, data \in DataValues : EnvUpdateSource(name, data)
    \/ \E ns \in NsNames, name \in SecretNames : EnvCopySecret(ns, name)
    \/ DoSyncSecretsDirect(NoFault)
    \/ \E name \in SecretNames, ns \in NsNames, getFails \in BOOLEAN :
          DoSyncSecretToNamespace(name, ns, getFails)
    \/ DoSyncSecretToNamespaceAgain
    \/ \E name \in SecretNames : DoDeleteSingleSecret(name, NoFault)
    \/ DoDeleteSingleSecretAgain
    \/ DoRequest("caller")

SpecDirect == InitTwo /\ [][NextDirect]_vars

\* The shared context is cancelled.
CancelContext ==
    /\ ~ctxDone
    /\ ctxDone' = TRUE
    /\ calls' = <<>>
    /\ lastOp' = Op("CancelContext", "", "")
    /\ UNCHANGED <<excludeNamespaceLabel, clusterVars, nsEvents, watcher, debouncer,
                   eventQueue, queueClosed, informerCache, timer, pendingEvents, emitted,
                   applied, batches, mainVars, frames>>
----------------------------------------------------------------------------
(* SpecWatcher: WatchSourceSecrets and processDebouncedSecretQueue *)

\* WatchSourceSecrets up to the start of the informer: the queue is made and the
\* debouncer goroutine is started.
StartWatchSourceSecrets ==
    /\ watcher = "idle"
    /\ watcher' = "started"
    /\ debouncer' = "select"
    /\ calls' = <<>>
    /\ lastOp' = Op("WatchSourceSecrets", "", "")
    /\ UNCHANGED <<excludeNamespaceLabel, clusterVars, nsEvents, ctxDone, eventQueue,
                   queueClosed, informerCache, timer, pendingEvents, emitted, applied,
                   batches, mainVars, frames>>

\* The secret informer notices that the secret named name differs from what it
\* last notified, and runs the callback, which sends on the queue.
InformerNotify(name, finalStateUnknown) ==
    /\ watcher = "started"
    /\ debouncer # "panicked"
    /\ Notifiable(name)
    /\ finalStateUnknown => ~LabelledSource(name)
    /\ Len(eventQueue) + Len(CallbackEvents(name, finalStateUnknown)) <= QueueCap
    /\ eventQueue' = eventQueue \o CallbackEvents(name, finalStateUnknown)
    /\ emitted' = emitted \o CallbackEvents(name, finalStateUnknown)
    /\ informerCache' = Notified(name)
    /\ calls' = <<>>
    /\ lastOp' = [op |-> "InformerNotify", ns |-> SourceNamespace, name |-> name,
                  events |-> CallbackEvents(name, finalStateUnknown)]
    /\ UNCHANGED <<excludeNamespaceLabel, clusterVars, nsEvents, watcher, debouncer, ctxDone,
                   queueClosed, timer, pendingEvents, applied, batches, mainVars, frames>>

\* What the batch of a case of the select leaves in lastOp.
CaseReturned(op) ==
    Returned(op, "", "") @@ [batch |-> pendingEvents, cancelled |-> ctxDone]

\* The batch a case of the select starts: processBatch over the pending events,
\* which its range yields in the order events.
CaseBatch(op, events) ==
    processBatchCall(CaseReturned(op), events, SourceNamespace)

\* What the debouncer does with the step of the batch f, the timer being tm:
\* when the step is the last, processBatch clears the map and returns, and after
\* case <-timer.C the timer is set to nil and the loop goes on, while after case
\* <-ctx.Done() the goroutine returns.
AfterBatchStep(f, tm) ==
    IF Returns(f)
    THEN /\ applied' = applied \o Next1(f).waited
         /\ batches' = IF Len(f.events) = 0 THEN batches ELSE batches + 1
         /\ pendingEvents' = NoPending
         /\ debouncer' = IF f.ret.op = "LoopDone" THEN "returned" ELSE "select"
         /\ timer' = IF f.ret.op = "LoopTimerFired" THEN "nil" ELSE tm
    ELSE /\ debouncer' = "processBatch"
         /\ timer' = tm
         /\ UNCHANGED <<applied, batches, pendingEvents>>

\* One step of the debouncer goroutine.  At the head of its for loop it enters
\* the select, and on entering a select every channel operand is evaluated,
\* timer.C among them: with timer nil that is a nil pointer dereference, and the
\* goroutine panics (nothing recovers it, so the process ends).  With a timer,
\* one of the ready cases runs: case <-timer.C is ready once the timer, not
\* stopped, has run for the debounce window, which it has at a time that is not
\* the model's to tell.  A case that calls processBatch runs it up to its first
\* Wait on the rate limiter, and the goroutine, once inside processBatch, takes
\* its next step there: a request to the API server or a Wait.
DebouncerSelect ==
    /\ debouncer \in {"select", "processBatch"}
    /\ IF debouncer = "processBatch"
       THEN /\ Request("debouncer")
            /\ AfterBatchStep(frames["debouncer"], timer)
            /\ UNCHANGED eventQueue
       ELSE IF timer = "nil"
       THEN /\ debouncer' = "panicked"
            /\ calls' = <<>>
            /\ lastOp' = Op("DebouncerSelect", "", "")
            /\ UNCHANGED <<clusterVars, eventQueue, timer, pendingEvents, applied, batches,
                           excludeNamespaceLabel, frames>>
       ELSE \/ \* case <-ctx.Done(): timer.Stop(), processBatch(), return
               /\ ctxDone
               /\ \E events \in PendingOrders(pendingEvents) :
                     /\ Enter("debouncer", CaseBatch("LoopDone", events))
                     /\ AfterBatchStep(CaseBatch("LoopDone", events), "stopped")
               /\ UNCHANGED eventQueue
            \/ \* case event := <-eventQueue: the event is stored; the timer is
               \* created, or stopped, its channel emptied, and reset.  A receive
               \* from the closed and drained queue yields the zero event.
               /\ Len(eventQueue) > 0 \/ queueClosed
               /\ LET event == IF Len(eventQueue) > 0 THEN Head(eventQueue) ELSE ZeroEvent
                  IN pendingEvents' = ReceiveEvent(pendingEvents, event)
               /\ eventQueue' = IF Len(eventQueue) > 0 THEN Tail(eventQueue) ELSE eventQueue
               /\ timer' = "armed"
               /\ calls' = <<>>
               /\ lastOp' = Op("DebouncerSelect", "", "")
               /\ UNCHANGED <<clusterVars, debouncer, applied, batches,
                              excludeNamespaceLabel, frames>>
            \/ \* case <-timer.C: processBatch(), timer = nil
               /\ timer = "armed"
               /\ \E events \in PendingOrders(pendingEvents) :
                     /\ Enter("debouncer", CaseBatch("LoopTimerFired", events))
                     /\ AfterBatchStep(CaseBatch("LoopTimerFired", events), timer)
               /\ UNCHANGED eventQueue
    /\ UNCHANGED <<nsEvents, watcher, ctxDone, queueClosed, informerCache, emitted, mainVars>>

\* WatchSourceSecrets after <-ctx.Done(): close(stopCh), close(eventQueue), return.
WatchSourceSecretsReturn ==
    /\ watcher = "started"
    /\ debouncer # "panicked"
    /\ ctxDone
    /\ watcher' = "returned"
    /\ queueClosed' = TRUE
    /\ calls' = <<>>
    /\ lastOp' = Op("WatchSourceSecretsReturn", "", "")
    /\ UNCHANGED <<excludeNamespaceLabel, clusterVars, nsEvents, debouncer, ctxDone,
                   eventQueue, informerCache, timer, pendingEvents, emitted, applied,
                   batches, mainVars, frames>>

NextWatcher ==
    \/ Env
    \/ StartWatchSourceSecrets
    \/ \E name \in SecretNames, finalStateUnknown \in BOOLEAN :
          InformerNotify(name, finalStateUnknown)
    \/ DebouncerSelect
    \/ CancelContext
    \/ WatchSourceSecretsReturn

SpecWatcher == Init /\ [][NextWatcher]_vars

----------------------------------------------------------------------------
(* SpecHandler: the handlers of the secret informer *)

\* The handlers of the secret informer, with the debouncer goroutine beside them,
\* over a source secret that is created, changed in its data, changed in its
\* metadata only, and deleted.
NextHandler ==
    \/ \E name \in SecretNames, data \in DataValues : EnvCreateSource(name, data)
    \/ \E name \in SecretNames, data \in DataValues : EnvUpdateSource(name, data)
    \/ \E name \in SecretNames, note \in NoteValues : EnvTouchSource(name, note)
    \/ \E name \in SecretNames : EnvDeleteSource(name)
    \/ StartWatchSourceSecrets
    \/ \E name \in SecretNames, finalStateUnknown \in BOOLEAN :
          InformerNotify(name, finalStateUnknown)
    \/ DebouncerSelect

SpecHandler == Init /\ [][NextHandler]_vars

----------------------------------------------------------------------------
(* SpecMain: the process main.go assembles *)

Changed(kind, name) == [kind |-> kind, name |-> name, windowPassed |-> FALSE]

MainEnvCreateSource(name, data) ==
    /\ CreateSource(name, data)
    /\ sourceChange' = Changed("create", name)
    /\ sweptSinceChange' = FALSE
    /\ UNCHANGED <<watcherVars, periodic, mainPC, wgRunning,
                   nsWatcher>>

MainEnvUpdateSource(name, data) ==
    /\ UpdateSource(name, data)
    /\ sourceChange' = Changed("update", name)
    /\ sweptSinceChange' = FALSE
    /\ UNCHANGED <<watcherVars, periodic, mainPC, wgRunning,
                   nsWatcher>>

\* A full debounce window goes by with no further change of a source secret.
\* main starts no goroutine that waits for it.
DebounceWindowPasses ==
    /\ sourceChange.kind # "none"
    /\ ~sourceChange.windowPassed
    /\ sourceChange' = [sourceChange EXCEPT !.windowPassed = TRUE]
    /\ calls' = <<>>
    /\ lastOp' = Op("DebounceWindowPasses", "", "")
    /\ UNCHANGED <<excludeNamespaceLabel, clusterVars, nsEvents, watcherVars, periodic,
                   sweptSinceChange, mainPC, wgRunning,
                   nsWatcher>>
    /\ UNCHANGED frames

\* The environment variable values LoadConfigFromEnv is tried with ("" = unset).
EnvBoolValues == {"", "true", "false", "1"}

parseEnvBoolWithDefault(value, defaultValue) ==
    IF value = "" THEN defaultValue ELSE value = "true"

\* The goroutines main adds to its WaitGroup, given cfg.EnableSecretWatcher.
StartedGoroutines(enableSecretWatcher) ==
    {"periodicSync", "namespaceWatcher", "metricsUpdater"}

\* main from LoadConfigFromEnv to the wait for a signal; envValue is the value of
\* ENABLE_SECRET_WATCHER.
MainStart(envValue) ==
    /\ mainPC = "start"
    /\ mainPC' = "waitSignal"
    /\ wgRunning' = StartedGoroutines(parseEnvBoolWithDefault(envValue, TRUE))
    /\ nsWatcher' = "syncing"
    /\ calls' = <<>>
    /\ lastOp' = [op |-> "MainStart", ns |-> "", name |-> "",
                  enableSecretWatcher |-> parseEnvBoolWithDefault(envValue, TRUE)]
    /\ UNCHANGED <<excludeNamespaceLabel, clusterVars, nsEvents, watcherVars, periodic,
                   sourceChange, sweptSinceChange>>
    /\ UNCHANGED frames

\* Mutant: a SyncSecrets error ends the periodic goroutine.
PeriodicAfterSync_StopOnError(failed) == IF failed THEN "stopped" ELSE "ticking"

\* The state of the periodic goroutine after a SyncSecrets call, failed or not:
\* the error is logged and the loop goes on.
PeriodicAfterSync(failed) == "ticking"

\* startPeriodicSync: the sync at start-up is called; its first request.
MainInitialSync ==
    /\ "periodicSync" \in wgRunning
    /\ mainPC # "complete"
    /\ periodic = "initial"
    /\ Enter("periodic", SyncSecretsCall(Returned("SyncSecrets", "", ""), SourceNamespace))
    /\ UNCHANGED <<nsEvents, watcherVars, mainVars>>

\* startPeriodicSync: the sync of one tick is called; its first request.
MainTickSync ==
    /\ "periodicSync" \in wgRunning
    /\ mainPC # "complete"
    /\ periodic = "ticking"
    /\ Enter("periodic", SyncSecretsCall(Returned("SyncSecrets", "", ""), SourceNamespace))
    /\ UNCHANGED <<nsEvents, watcherVars, mainVars>>

\* The periodic goroutine, inside SyncSecrets, sends its next request; when the
\* call returns, its result is logged and the loop waits for the next tick.
MainSyncRequest ==
    /\ mainPC # "complete"
    /\ Request("periodic")
    /\ IF Returns(frames["periodic"])
       THEN /\ periodic' = PeriodicAfterSync(FALSE)
            /\ sweptSinceChange' = (sweptSinceChange \/ ~frames["periodic"].interfered)
       ELSE UNCHANGED <<periodic, sweptSinceChange>>
    /\ UNCHANGED <<nsEvents, watcherVars, sourceChange, mainPC, wgRunning, nsWatcher>>

\* startNamespaceWatcher: the informer delivers one Add notification to AddFunc,
\* which runs to the answer of its first request.
MainNamespaceAdd(e) ==
    /\ "namespaceWatcher" \in wgRunning
    /\ mainPC # "complete"
    /\ e \in nsEvents
    /\ nsEvents' = nsEvents \ {e}
    /\ Enter("nsInformer",
             NamespaceAddFuncCall(Returned("NamespaceAdd", e.name, "") @@ [labels |-> e.labels],
                                  e, SourceNamespace, excludeNamespaceLabel))
    /\ UNCHANGED <<watcherVars, mainVars>>

\* AddFunc sends its next request.  It runs on the informer's goroutine, which
\* close(stopCh) does not wait for: the handler goes on after WatchNamespaces
\* has returned, as long as the process lives.
MainAddRequest ==
    /\ mainPC # "complete"
    /\ Request("nsInformer")
    /\ UNCHANGED <<nsEvents, watcherVars, mainVars>>

NextMain ==
    \/ \E envValue \in EnvBoolValues : MainStart(envValue)
    \/ \E name \in SecretNames, data \in DataValues : MainEnvCreateSource(name, data)
    \/ \E name \in SecretNames, data \in DataValues : MainEnvUpdateSource(name, data)
    \/ DebounceWindowPasses
    \/ MainInitialSync
    \/ MainTickSync
    \/ MainSyncRequest
    \/ \E e \in nsEvents : MainNamespaceAdd(e)
    \/ MainAddRequest

SpecMain == Init /\ [][NextMain]_vars

----------------------------------------------------------------------------
(* SpecLifecycle: main from start-up to exit *)

watcherVarsButCtx == <<watcher, debouncer, eventQueue, queueClosed, informerCache, timer,
                       pendingEvents, emitted, applied, batches>>

\* A SyncSecrets call of the periodic goroutine that returns an error (a List
\* fails): nothing is written, the error is logged.
PeriodicSyncFails ==
    /\ "periodicSync" \in wgRunning
    /\ mainPC # "complete"
    /\ periodic \in {"initial", "ticking"}
    /\ ~Active(frames["periodic"])
    /\ periodic' = PeriodicAfterSync(TRUE)
    /\ calls' = <<>>
    /\ lastOp' = Op("SyncSecretsFailed", "", "")
    /\ UNCHANGED <<excludeNamespaceLabel, clusterVars, nsEvents, watcherVars, sourceChange,
                   sweptSinceChange, mainPC, wgRunning,
                   nsWatcher>>
    /\ UNCHANGED frames

\* main receives SIGINT or SIGTERM.
ReceiveSignal ==
    /\ mainPC = "waitSignal"
    /\ mainPC' = "signalled"
    /\ calls' = <<>>
    /\ lastOp' = Op("ReceiveSignal", "", "")
    /\ UNCHANGED <<excludeNamespaceLabel, clusterVars, nsEvents, watcherVars, periodic,
                   sourceChange, sweptSinceChange, wgRunning,
                   nsWatcher>>
    /\ UNCHANGED frames

\* main calls cancel() and starts to wait for the WaitGroup or the grace period.
MainCancel ==
    /\ mainPC = "signalled"
    /\ mainPC' = "waitDone"
    /\ ctxDone' = TRUE
    /\ calls' = <<>>
    /\ lastOp' = Op("MainCancel", "", "")
    /\ UNCHANGED <<excludeNamespaceLabel, clusterVars, nsEvents, watcherVarsButCtx, periodic,
                   sourceChange, sweptSinceChange, wgRunning,
                   nsWatcher>>
    /\ UNCHANGED frames

\* The periodic goroutine takes case <-ctx.Done() and returns.
PeriodicSyncReturn ==
    /\ "periodicSync" \in wgRunning
    /\ mainPC # "complete"
    /\ periodic = "ticking"
    /\ ~Active(frames["periodic"])
    /\ ctxDone
    /\ periodic' = "stopped"
    /\ wgRunning' = wgRunning \ {"periodicSync"}
    /\ UNCHANGED nsWatcher
    /\ calls' = <<>>
    /\ lastOp' = Op("PeriodicSyncReturn", "", "")
    /\ UNCHANGED <<excludeNamespaceLabel, clusterVars, nsEvents, watcherVars, sourceChange,
                   sweptSinceChange, mainPC>>
    /\ UNCHANGED frames

\* WatchNamespaces: WaitForCacheSync returns true; the function goes on to wait
\* for <-ctx.Done().
NamespaceCacheSynced ==
    /\ "namespaceWatcher" \in wgRunning
    /\ mainPC # "complete"
    /\ nsWatcher = "syncing"
    /\ nsWatcher' = "watching"
    /\ calls' = <<>>
    /\ lastOp' = Op("NamespaceCacheSynced", "", "")
    /\ UNCHANGED <<excludeNamespaceLabel, clusterVars, nsEvents, watcherVars, periodic,
                   sourceChange, sweptSinceChange, mainPC, wgRunning>>
    /\ UNCHANGED frames

\* WatchNamespaces returns after <-ctx.Done(), which it reaches once the cache
\* has synced.
NamespaceWatcherReturn ==
    /\ "namespaceWatcher" \in wgRunning
    /\ mainPC # "complete"
    /\ nsWatcher = "watching"
    /\ ctxDone
    /\ wgRunning' = wgRunning \ {"namespaceWatcher"}
    /\ nsWatcher' = "returned"
    /\ calls' = <<>>
    /\ lastOp' = Op("NamespaceWatcherReturn", "", "")
    /\ UNCHANGED <<excludeNamespaceLabel, clusterVars, nsEvents, watcherVars, periodic,
                   sourceChange, sweptSinceChange, mainPC>>
    /\ UNCHANGED frames

\* The metrics updater takes case <-ctx.Done() and returns.
MetricsUpdaterReturn ==
    /\ "metricsUpdater" \in wgRunning
    /\ mainPC # "complete"
    /\ ctxDone
    /\ wgRunning' = wgRunning \ {"metricsUpdater"}
    /\ UNCHANGED nsWatcher
    /\ calls' = <<>>
    /\ lastOp' = Op("MetricsUpdaterReturn", "", "")
    /\ UNCHANGED <<excludeNamespaceLabel, clusterVars, nsEvents, watcherVars, periodic,
                   sourceChange, sweptSinceChange, mainPC>>
    /\ UNCHANGED frames

\* main's select, case <-done: wg.Wait() has returned.
MainAllDone ==
    /\ mainPC = "waitDone"
    /\ wgRunning = {}
    /\ mainPC' = "complete"
    /\ calls' = <<>>
    /\ lastOp' = Op("AllGoroutinesCompleted", "", "")
    /\ UNCHANGED <<excludeNamespaceLabel, clusterVars, nsEvents, watcherVars, periodic,
                   sourceChange, sweptSinceChange, wgRunning,
                   nsWatcher>>
    /\ UNCHANGED frames

\* Mutant: no grace period, main waits for the WaitGroup alone.
GraceExpires_WaitsForAll ==
    /\ mainPC = "waitDone"
    /\ wgRunning = {}
    /\ mainPC' = "complete"
    /\ calls' = <<>>
    /\ lastOp' = Op("ShutdownTimeout", "", "")
    /\ UNCHANGED <<excludeNamespaceLabel, clusterVars, nsEvents, watcherVars, periodic,
                   sourceChange, sweptSinceChange, wgRunning,
                   nsWatcher>>
    /\ UNCHANGED frames

\* main's select, case <-time.After(30 * time.Second).
GraceExpires ==
    /\ mainPC = "waitDone"
    /\ mainPC' = "complete"
    /\ calls' = <<>>
    /\ lastOp' = Op("ShutdownTimeout", "", "")
    /\ UNCHANGED <<excludeNamespaceLabel, clusterVars, nsEvents, watcherVars, periodic,
                   sourceChange, sweptSinceChange, wgRunning,
                   nsWatcher>>
    /\ UNCHANGED frames

\* The external actor creates source secrets while main runs.
NextLifecycle ==
    \/ \E name \in SecretNames, data \in DataValues : EnvCreateSource(name, data)
    \/ \E envValue \in EnvBoolValues : MainStart(envValue)
    \/ MainInitialSync
    \/ MainTickSync
    \/ MainSyncRequest
    \/ PeriodicSyncFails
    \/ \E e \in nsEvents : MainNamespaceAdd(e)
    \/ MainAddRequest
    \/ ReceiveSignal
    \/ MainCancel
    \/ PeriodicSyncReturn
    \/ NamespaceCacheSynced
    \/ NamespaceWatcherReturn
    \/ MetricsUpdaterReturn
    \/ MainAllDone
    \/ GraceExpires

\* main's own goroutine keeps running, and time passes.
SpecLifecycle ==
    Init /\ [][NextLifecycle]_vars /\ WF_vars(MainCancel) /\ WF_vars(GraceExpires)

\* The first SyncSecrets call of the periodic goroutine returns, with or without
\* an error: each of its API calls is bounded by its timeout.
PeriodicInitialReturns ==
    /\ periodic = "initial"
    /\ MainInitialSync \/ MainSyncRequest \/ PeriodicSyncFails

\* SpecReturn: main from start-up to exit, where every goroutine that can run
\* does run; the select of the periodic goroutine, which finds <-ctx.Done() ready
\* before each tick, takes it at some point, and main's grace period expires when
\* main is still waiting.  Nothing makes the cache of the namespace informer
\* sync: that is up to the API server.
NextReturn == NextLifecycle

SpecReturn ==
    /\ Init /\ [][NextReturn]_vars
    /\ WF_vars(MainCancel)
    /\ WF_vars(GraceExpires)
    /\ WF_vars(PeriodicInitialReturns)
    /\ WF_vars(MainSyncRequest)
    /\ SF_vars(PeriodicSyncReturn)
    /\ WF_vars(NamespaceWatcherReturn)
    /\ WF_vars(MetricsUpdaterReturn)
    /\ WF_vars(MainAllDone)

----------------------------------------------------------------------------
(* SpecStartup: the cache syncs of WatchNamespaces and WatchSourceSecrets *)

\* The process is running: no goroutine has panicked.
ProcessAlive == debouncer # "panicked"

\* WatchNamespaces is called: the handler is added, the informer started, and the
\* function waits for the cache to sync.
StartWatchNamespaces ==
    /\ nsWatcher = "none"
    /\ nsWatcher' = "syncing"
    /\ calls' = <<>>
    /\ lastOp' = Op("WatchNamespaces", "", "")
    /\ UNCHANGED <<excludeNamespaceLabel, clusterVars, nsEvents, watcherVars, periodic,
                   sourceChange, sweptSinceChange, mainPC, wgRunning>>
    /\ UNCHANGED frames

\* WatchNamespaces: WaitForCacheSync returns false; close(stopCh), return.
NamespaceCacheSyncFails ==
    /\ ProcessAlive
    /\ nsWatcher = "syncing"
    /\ ~ctxDone
    /\ nsWatcher' = "syncFailed"
    /\ calls' = <<>>
    /\ lastOp' = Op("NamespaceCacheSyncFailed", "", "")
    /\ UNCHANGED <<excludeNamespaceLabel, clusterVars, nsEvents, watcherVars, periodic,
                   sourceChange, sweptSinceChange, mainPC, wgRunning>>
    /\ UNCHANGED frames

\* WatchSourceSecrets: WaitForCacheSync returns false; close(stopCh), return.  The
\* queue stays open and the debouncer goroutine started before keeps running.
SecretCacheSyncFails ==
    /\ ProcessAlive
    /\ watcher = "started"
    /\ DOMAIN informerCache = {}
    /\ ~ctxDone
    /\ watcher' = "syncFailed"
    /\ calls' = <<>>
    /\ lastOp' = Op("SecretCacheSyncFailed", "", "")
    /\ UNCHANGED <<excludeNamespaceLabel, clusterVars, nsEvents, debouncer, ctxDone,
                   eventQueue, queueClosed, informerCache, timer, pendingEvents, emitted,
                   applied, batches, mainVars>>
    /\ UNCHANGED frames

\* SpecStartup: a process that calls WatchNamespaces and WatchSourceSecrets, each
\* on a goroutine of its own, and SyncSecrets on another, as long as it runs.
NextStartup ==
    \/ \E name \in SecretNames, data \in DataValues : EnvCreateSource(name, data)
    \/ \E name \in SecretNames, data \in DataValues : EnvUpdateSource(name, data)
    \/ StartWatchNamespaces
    \/ StartWatchSourceSecrets
    \/ NamespaceCacheSyncFails
    \/ SecretCacheSyncFails
    \/ DebouncerSelect
    \/ ProcessAlive /\ DoSyncSecrets
    \/ ProcessAlive /\ DoRequest("periodic")

SpecStartup == Init /\ [][NextStartup]_vars

\* SpecDelete: a process that calls WatchSourceSecrets on a goroutine of its own
\* and SyncSecrets on another, as long as it runs, over two namespaces that may
\* receive replicas and a source secret that is created and deleted.
NextDelete ==
    \/ \E name \in SecretNames, data \in DataValues : EnvCreateSource(name, data)
    \/ \E name \in SecretNames : EnvDeleteSource(name)
    \/ StartWatchSourceSecrets
    \/ \E name \in SecretNames, finalStateUnknown \in BOOLEAN :
          InformerNotify(name, finalStateUnknown)
    \/ DebouncerSelect
    \/ ProcessAlive /\ DoSyncSecrets
    \/ ProcessAlive /\ DoRequest("periodic")

SpecDelete == InitTwo /\ [][NextDelete]_vars

----------------------------------------------------------------------------
(* SpecQueue: the event queue between the callbacks and the debouncer *)

\* The informer has notified the latest state of the secret named name.
InformerCaughtUp(name) ==
    IF LabelledSource(name)
    THEN name \in DOMAIN informerCache /\ informerCache[name] = secrets[<<SourceNamespace, name>>]
    ELSE name \notin DOMAIN informerCache

\* An external actor creates the source secret, or sets its Data, once the
\* informer has notified the change before.
QueueEnvChange(name, data) ==
    /\ debouncer # "panicked"
    /\ InformerCaughtUp(name)
    /\ IF <<SourceNamespace, name>> \in DOMAIN secrets
       THEN /\ secrets[<<SourceNamespace, name>>].data # data
            /\ secrets' = [secrets EXCEPT ![<<SourceNamespace, name>>].data = data,
                                          ![<<SourceNamespace, name>>].rv = rev + 1]
            /\ rev' = rev + 1
            /\ calls' = <<>>
       ELSE /\ secrets' = (<<SourceNamespace, name>> :>
                             [NewSourceSecret(name, data) EXCEPT !.uid = rev + 1, !.rv = rev + 1])
                          @@ secrets
            /\ rev' = rev + 1
            /\ calls' = <<>>
    /\ lastOp' = Op("envChangeSource", SourceNamespace, name)
    /\ UNCHANGED <<excludeNamespaceLabel, namespaces, nsEvents>>
    /\ Frame
    /\ frames' = Disturbed(frames)

NextQueue ==
    \/ StartWatchSourceSecrets
    \/ \E name \in SecretNames, data \in DataValues : QueueEnvChange(name, data)
    \/ \E name \in SecretNames, finalStateUnknown \in BOOLEAN :
          InformerNotify(name, finalStateUnknown)
    \/ DebouncerSelect

SpecQueue == Init /\ [][NextQueue]_vars

----------------------------------------------------------------------------
(* SpecShutdown: callbacks in flight when WatchSourceSecrets closes the queue *)

\* The source secret changes while the informer runs or before it starts.
ShutdownEnv ==
    /\ watcher \in {"idle", "started"}
    /\ \/ \E name \in SecretNames, data \in DataValues : EnvCreateSource(name, data)
       \/ \E name \in SecretNames, data \in DataValues : EnvUpdateSource(name, data)
       \/ \E name \in SecretNames : EnvDeleteSource(name)

\* The send of a callback that the informer's goroutine was running when
\* WatchSourceSecrets closed the queue: close(stopCh) does not wait for the
\* callbacks, and a send on a closed channel panics.
CallbackSendInFlight(name) ==
    /\ watcher = "returned"
    /\ queueClosed
    /\ debouncer # "panicked"
    /\ ~InformerCaughtUp(name)
    /\ Len(CallbackEvents(name, FALSE)) > 0
    /\ watcher' = "panicked"
    /\ calls' = <<>>
    /\ lastOp' = [op |-> "SendOnClosedQueue", ns |-> SourceNamespace, name |-> name,
                  event |-> CallbackEvents(name, FALSE)[1]]
    /\ UNCHANGED <<excludeNamespaceLabel, clusterVars, nsEvents, debouncer, ctxDone,
                   eventQueue, queueClosed, informerCache, timer, pendingEvents, emitted,
                   applied, batches, mainVars>>
    /\ UNCHANGED frames

NextShutdown ==
    \/ ShutdownEnv
    \/ StartWatchSourceSecrets
    \/ \E name \in SecretNames, finalStateUnknown \in BOOLEAN :
          InformerNotify(name, finalStateUnknown)
    \/ DebouncerSelect
    \/ CancelContext
    \/ WatchSourceSecretsReturn
    \/ \E name \in SecretNames : CallbackSendInFlight(name)

SpecShutdown == Init /\ [][NextShutdown]_vars

----------------------------------------------------------------------------
(* SpecConfig: pkg/config/config.go *)

\* The value of an environment variable is a sequence of characters; << >> is
\* the unset (or empty) variable.
DigitValue ==
    [c \in {"0", "1", "2", "3", "4", "5", "6", "7", "8", "9"} |->
        CASE c = "0" -> 0 [] c = "1" -> 1 [] c = "2" -> 2 [] c = "3" -> 3 [] c = "4" -> 4
          [] c = "5" -> 5 [] c = "6" -> 6 [] c = "7" -> 7 [] c = "8" -> 8 [] c = "9" -> 9]

DigitChars == <<"0", "1", "2", "3", "4", "5", "6", "7", "8", "9">>

\* A Go int (64 bits wide) is held as its sign and the decimal digits of its
\* magnitude, without leading zeros: TLC's own integers are 32 bits wide.
RECURSIVE NatDigits(_)
NatDigits(n) ==
    IF n < 10 THEN <<DigitChars[n + 1]>>
    ELSE Append(NatDigits(n \div 10), DigitChars[(n % 10) + 1])

\* The Go int of a small integer, as the literals of config.go are.
GoInt(n) == [neg |-> n < 0, digits |-> NatDigits(IF n < 0 THEN 0 - n ELSE n)]

\* The magnitudes of the largest and the smallest int: 1<<63 - 1 and 1<<63.
MaxIntDigits ==
    <<"9", "2", "2", "3", "3", "7", "2", "0", "3", "6", "8", "5", "4", "7", "7", "5", "8", "0", "7">>

MinIntDigits ==
    <<"9", "2", "2", "3", "3", "7", "2", "0", "3", "6", "8", "5", "4", "7", "7", "5", "8", "0", "8">>

\* a < b for two magnitudes without leading zeros.
DigitsLess(a, b) ==
    \/ Len(a) < Len(b)
    \/ /\ Len(a) = Len(b)
       /\ \E i \in 1..Len(a) :
             /\ DigitValue[a[i]] < DigitValue[b[i]]
             /\ \A j \in 1..(i - 1) : a[j] = b[j]

\* a < b for two Go ints.
IntLess(a, b) ==
    IF a.neg # b.neg THEN a.neg
    ELSE IF a.neg THEN DigitsLess(b.digits, a.digits)
    ELSE DigitsLess(a.digits, b.digits)

RECURSIVE TrimLeadingZeros(_)
TrimLeadingZeros(digits) ==
    IF Len(digits) > 1 /\ digits[1] = "0" THEN TrimLeadingZeros(Tail(digits)) ELSE digits

\* strconv.Atoi: an optional sign, then one or more decimal digits and nothing
\* else.  A syntax error returns 0 with the error; a value beyond the range of
\* int returns the nearest int with the error.
Atoi(value) ==
    LET signed == value # <<>> /\ value[1] \in {"+", "-"}
        neg == signed /\ value[1] = "-"
        digits == IF signed THEN Tail(value) ELSE value
        magnitude == TrimLeadingZeros(digits)
    IN IF digits = <<>> \/ \E i \in 1..Len(digits) : digits[i] \notin DOMAIN DigitValue
       THEN [err |-> TRUE, intValue |-> GoInt(0)]
       ELSE IF ~neg /\ DigitsLess(MaxIntDigits, magnitude)
       THEN [err |-> TRUE, intValue |-> [neg |-> FALSE, digits |-> MaxIntDigits]]
       ELSE IF neg /\ DigitsLess(MinIntDigits, magnitude)
       THEN [err |-> TRUE, intValue |-> [neg |-> TRUE, digits |-> MinIntDigits]]
       ELSE [err |-> FALSE,
             intValue |-> [neg |-> neg /\ magnitude # <<"0">>, digits |-> magnitude]]

parseEnvInt(value, defaultValue) ==
    IF value = <<>> THEN defaultValue
    ELSE IF Atoi(value).err THEN defaultValue
    ELSE Atoi(value).intValue

\* A range test that replaces an out-of-range value by the nearest bound.
ValidateRange_Clamp(intValue, lo, hi, defaultValue) ==
    IF IntLess(intValue, lo) THEN lo ELSE IF IntLess(hi, intValue) THEN hi ELSE intValue

\* The range tests of LoadConfigFromEnv.
ValidateRange(intValue, lo, hi, defaultValue) ==
    IF IntLess(intValue, lo) \/ IntLess(hi, intValue) THEN defaultValue ELSE intValue

\* The integer settings: their environment variable, range and default.
IntSettings ==
    {[key |-> "METRICS_PORT", field |-> "MetricsPort", lo |-> 1, hi |-> 65535, def |-> 9090],
     [key |-> "SYNC_INTERVAL", field |-> "SyncInterval", lo |-> 1, hi |-> 1440, def |-> 15],
     [key |-> "SECRET_SYNC_DEBOUNCE_SECONDS", field |-> "SecretSyncDebounce",
      lo |-> 1, hi |-> 60, def |-> 5],
     [key |-> "SECRET_SYNC_RATE_LIMIT", field |-> "SecretSyncRateLimit",
      lo |-> 1, hi |-> 100, def |-> 10]}

EnvIntKeys == {setting.key : setting \in IntSettings}

LoadConfigFromEnv(environ) ==
    [MetricsPort |->
         ValidateRange(parseEnvInt(environ["METRICS_PORT"], GoInt(9090)),
                       GoInt(1), GoInt(65535), GoInt(9090)),
     SyncInterval |->
         ValidateRange(parseEnvInt(environ["SYNC_INTERVAL"], GoInt(15)),
                       GoInt(1), GoInt(1440), GoInt(15)),
     SecretSyncDebounce |->
         ValidateRange(parseEnvInt(environ["SECRET_SYNC_DEBOUNCE_SECONDS"], GoInt(5)),
                       GoInt(1), GoInt(60), GoInt(5)),
     SecretSyncRateLimit |->
         ValidateRange(parseEnvInt(environ["SECRET_SYNC_RATE_LIMIT"], GoInt(10)),
                       GoInt(1), GoInt(100), GoInt(10))]

EnvIntCase(value, isInteger, integer, beyond, keys) ==
    [value |-> value, isInteger |-> isInteger, integer |-> integer, beyond |-> beyond,
     keys |-> keys]

\* The values the variables are tried with, each with what it denotes: whether
\* it is the decimal numeral of an integer that fits in an int, that integer
\* (beyond: an integer larger in magnitude than any bound of a setting, which is
\* not written out), and the variables it is tried for.  Every variable gets its
\* own upper bound and a neighbour's, and the ends of the range of int.
EnvIntCases ==
    {EnvIntCase(<< >>, FALSE, 0, FALSE, EnvIntKeys),
     EnvIntCase(<<"a", "b", "c">>, FALSE, 0, FALSE, EnvIntKeys),
     EnvIntCase(<<"1", " ">>, FALSE, 0, FALSE, EnvIntKeys),
     EnvIntCase(<<"9", "9", "9", "9", "9", "9", "9", "9", "9", "9",
                  "9", "9", "9", "9", "9", "9", "9", "9", "9", "9">>, FALSE, 0, FALSE,
                EnvIntKeys),
     EnvIntCase(<<"-", "1">>, TRUE, -1, FALSE, EnvIntKeys),
     EnvIntCase(<<"0">>, TRUE, 0, FALSE, EnvIntKeys),
     EnvIntCase(<<"1">>, TRUE, 1, FALSE, EnvIntKeys),
     EnvIntCase(<<"+", "7">>, TRUE, 7, FALSE, EnvIntKeys),
     EnvIntCase(<<"2", "1", "4", "7", "4", "8", "3", "6", "4", "7">>, TRUE, 2147483647, FALSE,
                EnvIntKeys),
     EnvIntCase(<<"9", "2", "2", "3", "3", "7", "2", "0", "3", "6",
                  "8", "5", "4", "7", "7", "5", "8", "0", "7">>, TRUE, 0, TRUE,
                {"METRICS_PORT", "SYNC_INTERVAL"}),
     EnvIntCase(<<"9", "2", "2", "3", "3", "7", "2", "0", "3", "6",
                  "8", "5", "4", "7", "7", "5", "8", "0", "8">>, FALSE, 0, FALSE,
                {"METRICS_PORT", "SYNC_INTERVAL"}),
     EnvIntCase(<<"-", "9", "2", "2", "3", "3", "7", "2", "0", "3", "6",
                  "8", "5", "4", "7", "7", "5", "8", "0", "8">>, TRUE, 0, TRUE,
                {"SECRET_SYNC_DEBOUNCE_SECONDS", "SECRET_SYNC_RATE_LIMIT"}),
     EnvIntCase(<<"1", "0", "0", "0", "0", "0", "0", "0", "0", "0">>, TRUE, 1000000000, FALSE,
                {"SECRET_SYNC_DEBOUNCE_SECONDS", "SECRET_SYNC_RATE_LIMIT"}),
     EnvIntCase(<<"0", "6", "0">>, TRUE, 60, FALSE,
                {"SECRET_SYNC_DEBOUNCE_SECONDS", "SECRET_SYNC_RATE_LIMIT"}),
     EnvIntCase(<<"6", "1">>, TRUE, 61, FALSE,
                {"SECRET_SYNC_DEBOUNCE_SECONDS", "SECRET_SYNC_RATE_LIMIT"}),
     EnvIntCase(<<"1", "0", "0">>, TRUE, 100, FALSE, {"SECRET_SYNC_RATE_LIMIT", "SYNC_INTERVAL"}),
     EnvIntCase(<<"1", "0", "1">>, TRUE, 101, FALSE, {"SECRET_SYNC_RATE_LIMIT", "SYNC_INTERVAL"}),
     EnvIntCase(<<"1", "4", "4", "0">>, TRUE, 1440, FALSE, {"SYNC_INTERVAL", "METRICS_PORT"}),
     EnvIntCase(<<"1", "4", "4", "1">>, TRUE, 1441, FALSE, {"SYNC_INTERVAL", "METRICS_PORT"}),
     EnvIntCase(<<"6", "5", "5", "3", "5">>, TRUE, 65535, FALSE,
                {"METRICS_PORT", "SECRET_SYNC_DEBOUNCE_SECONDS"}),
     EnvIntCase(<<"6", "5", "5", "3", "6">>, TRUE, 65536, FALSE,
                {"METRICS_PORT", "SECRET_SYNC_DEBOUNCE_SECONDS"})}

EnvIntValues(key) == {case.value : case \in {c \in EnvIntCases : key \in c.keys}}

Environments ==
    {environ \in [EnvIntKeys -> {case.value : case \in EnvIntCases}] :
        \A key \in EnvIntKeys : environ[key] \in EnvIntValues(key)}

\* main's call of LoadConfigFromEnv, its first statement, in some environment.
DoLoadConfigFromEnv ==
    /\ lastOp.op = "init"
    /\ \E environ \in Environments :
          lastOp' = [op |-> "LoadConfigFromEnv", ns |-> "", name |-> "",
                     environ |-> environ, config |-> LoadConfigFromEnv(environ)]
    /\ calls' = <<>>
    /\ UNCHANGED <<excludeNamespaceLabel, clusterVars, nsEvents, watcherVars, mainVars>>
    /\ UNCHANGED frames

NextConfig == DoLoadConfigFromEnv

SpecConfig == Init /\ [][NextConfig]_vars

----------------------------------------------------------------------------
(* Claims checked under Spec *)

CallIdx == 1..Len(calls)

Writes == {"create", "update", "delete"}

\* The step just taken was a step of a call into pkg/k8s.
CallStep == "req" \in DOMAIN lastOp

\* The request sent in the step just taken.
Sent == IF CallStep THEN lastOp.req ELSE NoReq

\* The call whose step was just taken, by what it leaves in lastOp on return.
CallOf == IF lastOp.op = "Request" THEN lastOp.by ELSE lastOp.op

\* C1: when SyncSecrets has just returned, nobody else having changed the
\* cluster while it ran (no store fault is injected: every request is answered
\* by the store's own rules), every eligible namespace holds, for every labelled
\* source secret, a secret of that name whose Data equals the source's.
C1_SyncSecretsConverges == (lastOp.op = "SyncSecrets" /\ ~lastOp.interfered) => Converged

\* C2: every Update request the controller issues carries the UID of the replica
\* it updates, and none is rejected by the store's UID precondition.
C2_UpdateCarriesReplicaUID ==
    \A i \in CallIdx : calls[i].verb = "update" =>
        /\ calls[i].uid = calls[i].existingUID
        /\ calls[i].result # "UIDMismatch"

\* C15: a call of the controller that sends a secret write has first acquired
\* at least one token from the rate limiter.
C15_WritesBehindLimiter == Sent.verb \in Writes => Len(lastOp.waited) >= 1

\* C22: when SyncSecrets has just returned, nobody else having changed the
\* cluster while it ran, a namespace that carries the exclusion label key holds
\* no replica of a labelled source secret.
C22_FullSyncClearsExcluded ==
    (lastOp.op = "SyncSecrets" /\ ~lastOp.interfered) =>
        \A ns \in DOMAIN namespaces \ {SourceNamespace} :
            (excludeNamespaceLabel # "" /\ HasLabel(namespaces[ns], excludeNamespaceLabel)) =>
                \A name \in SecretNames :
                    LabelledSource(name) => <<ns, name>> \notin DOMAIN secrets

\* C24: every Create request a call of the controller issues is addressed to the
\* namespace it is meant for and carries no UID and no resource version.
C24_CreateCarriesNoIdentity ==
    \A i \in CallIdx :
        calls[i].verb = "create" =>
            /\ calls[i].ns # SourceNamespace
            /\ calls[i].uid = NoUID
            /\ calls[i].rv = NoRV

----------------------------------------------------------------------------
(* Claims checked under SpecLoops *)

\* The loop of the call f is at a pair of its listings.
AtPair(f) == f.pc \in {"getNamespace", "getSecret", "write", "delete"}

\* The call went from f to g by a step of its own.
Moved(f, g) == <<g.pc, g.i, g.j, g.k>> # <<f.pc, f.i, f.j, f.k>>

\* The call f, at the pair (i, j), has moved to g: to the next pair of the
\* listings, at the first request of the loop body, or out of the loop when
\* (i, j) was the last pair.
NextPairTaken(f, g) ==
    IF f.j < Len(f.items)
    THEN g.fn = f.fn /\ g.i = f.i /\ g.j = f.j + 1 /\ g.pc = FirstRequest(f.fn, excludeNamespaceLabel)
    ELSE IF f.i < Len(f.sourceSecrets)
    THEN g.fn = f.fn /\ g.i = f.i + 1 /\ g.j = 1 /\ g.pc = FirstRequest(f.fn, excludeNamespaceLabel)
    ELSE g.i = 0 /\ g.j = 0

\* C18: in SyncSecrets, syncSingleSecretToAllNamespaces,
\* syncSecretsToSingleNamespace and deleteSingleSecretFromAllNamespaces a pass
\* attempts every pair of its listings exactly once, whatever the earlier pairs
\* returned: a step of a loop at one pair either goes on with the next request
\* for that pair or moves to the next pair, and after a write request,
\* accepted, rejected or failed, it moves to the next pair.
C18_FailureDoesNotStopSiblings ==
    [][\A g \in Goroutines :
          LET f == frames[g]
              h == frames'[g]
          IN (AtPair(f) /\ Moved(f, h)) =>
                 \/ /\ f.pc \in {"getNamespace", "getSecret"}
                    /\ h.fn = f.fn /\ h.i = f.i /\ h.j = f.j
                    /\ h.pc = IF f.pc = "getNamespace" THEN "getSecret" ELSE "write"
                 \/ NextPairTaken(f, h)
      ]_vars

\* C18's case: a sweep over two source secrets and two namespaces has returned
\* after one write request for each of the four pairs, in the order of the
\* listings; the first, a Create sent after a failed Get, was answered
\* already-exists, and the other three were accepted.
C18_Witness ==
    /\ lastOp.op = "SyncSecrets"
    /\ Len(calls) = 4
    /\ <<calls[1].ns, calls[1].name>> = <<"ns1", "creds">>
    /\ <<calls[2].ns, calls[2].name>> = <<"ns2", "creds">>
    /\ <<calls[3].ns, calls[3].name>> = <<"ns1", "token">>
    /\ <<calls[4].ns, calls[4].name>> = <<"ns2", "token">>
    /\ calls[1].verb = "create" /\ calls[1].result = "AlreadyExists"
    /\ \A i \in 2..4 : calls[i].result = "ok"

----------------------------------------------------------------------------
(* Claims checked under SpecAdd and SpecRace *)

\* The labelled source secrets all have, in ns, a secret with their Data.
ReplicatedIn(ns) ==
    \A name \in SecretNames : LabelledSource(name) => ReplicaMatches(ns, name)

\* C9: when the Add handler of a namespace that is neither the source namespace
\* nor excluded has just returned, nobody else having changed the cluster while
\* it ran, the namespace holds, for every labelled source secret, a replica
\* whose Data equals the source's.
C9_NamespaceAddCreatesReplicas ==
    (lastOp.op = "NamespaceAdd" /\ ~lastOp.interfered /\ EligibleNamespace(lastOp.ns)) =>
        ReplicatedIn(lastOp.ns)

\* C31: the Add handler of namespace N sends write requests only for N, at most
\* one per source secret, and sends no request at all, read or write, when N is
\* the source namespace or the notified object carries the exclusion label.
C31_NamespaceAddTouchesOnlyThatNamespace ==
    CallOf = "NamespaceAdd" =>
        /\ Sent.verb \in Writes => Sent.ns = lastOp.ns
        /\ \A i \in CallIdx : calls[i].ns = lastOp.ns
        /\ \A i, j \in CallIdx : calls[i].name = calls[j].name => i = j
        /\ (lastOp.ns = SourceNamespace
            \/ (excludeNamespaceLabel # "" /\ HasLabel(lastOp.labels, excludeNamespaceLabel))) =>
               /\ lastOp.op = "NamespaceAdd"
               /\ Sent = NoReq
               /\ calls = <<>>

\* C31's case: the handler of ns2 has created the replica there while ns1, which
\* a sweep would have served too, still has none.
C31_Witness ==
    /\ lastOp.op = "NamespaceAdd"
    /\ lastOp.ns = "ns2"
    /\ Len(calls) = 1
    /\ calls[1].verb = "create" /\ calls[1].result = "ok" /\ calls[1].ns = "ns2"
    /\ "ns1" \in DOMAIN namespaces
    /\ EligibleNamespace("ns1")
    /\ \E name \in SecretNames : LabelledSource(name) /\ <<"ns1", name>> \notin DOMAIN secrets

----------------------------------------------------------------------------
(* Claims checked under SpecPaths *)

\* The namespace ns carries the configured exclusion label key.
CarriesExclusionLabel(ns) ==
    excludeNamespaceLabel # "" /\ HasLabel(namespaces[ns], excludeNamespaceLabel)

\* C3: no call sends a secret Create, Update or Delete to a namespace that
\* carries the configured exclusion label key; stated for the calls during
\* which nobody else changes the cluster, whose namespaces carry at the write
\* the labels they carried when the call began.
C3_NoWriteToExcludedNamespace ==
    (Sent.verb \in Writes /\ ~lastOp.interfered) => ~CarriesExclusionLabel(Sent.ns)

\* C4: no step of a call of the controller sends a secret write to the source
\* namespace, and every such step leaves the secrets of the source namespace as
\* they were.
C4_SourceNamespaceUntouched ==
    [][("req" \in DOMAIN lastOp') =>
         /\ lastOp'.req.verb \in Writes => lastOp'.req.ns # SourceNamespace
         /\ \A name \in SecretNames :
               /\ (<<SourceNamespace, name>> \in DOMAIN secrets')
                     = (<<SourceNamespace, name>> \in DOMAIN secrets)
               /\ <<SourceNamespace, name>> \in DOMAIN secrets =>
                     secrets'[<<SourceNamespace, name>>] = secrets[<<SourceNamespace, name>>]
      ]_vars

\* C4's case: a delete pass has sent its Delete to another namespace while a
\* secret of that name exists in the source namespace.
C4_Witness ==
    /\ lastOp.op = "deleteSingleSecret"
    /\ <<SourceNamespace, lastOp.name>> \in DOMAIN secrets
    /\ Sent.verb = "delete"
    /\ Sent.ns # SourceNamespace

----------------------------------------------------------------------------
(* Claims checked under SpecDelete *)

\* No namespace that may receive replicas holds a secret named name.
NoReplicaOf(name) ==
    \A ns \in NsNames : EligibleNamespace(ns) => <<ns, name>> \notin DOMAIN secrets

\* The events the callbacks of the secret informer have sent for the name.
EventsFor(name) == SelectSeq(emitted, LAMBDA e : e.Name = name)

\* The secrets of the name that the cluster holds were all written before the
\* last write to the cluster.
WrittenEarlier(name) ==
    \A ns \in NsNames : <<ns, name>> \in DOMAIN secrets => secrets[<<ns, name>>].rv < rev

\* C7: with no shutdown requested, when the last event sent for a secret name
\* is a delete event and nothing has been written to the cluster since the
\* deletion of the source secret, either the debouncer still runs and has the
\* event to apply, or no namespace that may receive replicas holds a secret of
\* that name.
C7_DeleteEventRemovesReplicas ==
    \A name \in SecretNames :
        (/\ EventsFor(name) # <<>>
         /\ EventsFor(name)[Len(EventsFor(name))].EventType = "delete"
         /\ ~LabelledSource(name)
         /\ WrittenEarlier(name)
         /\ ~ctxDone) =>
            \/ debouncer \in {"select", "processBatch"}
            \/ NoReplicaOf(name)

----------------------------------------------------------------------------
(* Claims checked under SpecStale *)

\* C40: a step of syncSingleSecretToAllNamespaces, the function an add or update
\* event is applied with, whatever the age of the copy of the secret it was
\* called with, leaves the Data of every replica that equals the current Data of
\* the source secret as it is.
C40_StaleEventNeverRegresses ==
    [][(("req" \in DOMAIN lastOp') /\ CallOf' = "syncSingleSecret") =>
          \A ns \in DOMAIN namespaces \ {SourceNamespace} :
              (/\ <<SourceNamespace, lastOp'.name>> \in DOMAIN secrets
               /\ <<ns, lastOp'.name>> \in DOMAIN secrets
               /\ ReplicaMatches(ns, lastOp'.name)) =>
                  /\ <<ns, lastOp'.name>> \in DOMAIN secrets'
                  /\ secrets'[<<ns, lastOp'.name>>].data = secrets[<<ns, lastOp'.name>>].data
      ]_vars

\* C40's case: a call that holds a copy older than the source secret has sent
\* its Update to a replica that a sweep has given the current Data; the Update
\* was not accepted and the replica still holds the current Data.
C40_Witness ==
    /\ CallOf = "syncSingleSecret"
    /\ Sent.verb = "update"
    /\ Sent.ns = "ns1"
    /\ Sent.result # "ok"
    /\ LabelledSource(lastOp.name)
    /\ lastOp.secret.data # secrets[<<SourceNamespace, lastOp.name>>].data
    /\ ReplicaMatches("ns1", lastOp.name)

----------------------------------------------------------------------------
(* Claims checked under SpecSweep *)

\* A replica whose source secret is gone or no longer carries the marker label.
Orphan(ns, name) ==
    /\ ns # SourceNamespace
    /\ <<ns, name>> \in DOMAIN secrets
    /\ ~LabelledSource(name)

\* C32: a step of a sweep sends no Delete and leaves every replica whose source
\* secret is gone or unlabelled as it is; a replica disappears only in a step
\* of deleteSingleSecretFromAllNamespaces, by its Delete.
C32_SweepNeverDeletes ==
    [][/\ (("req" \in DOMAIN lastOp') /\ CallOf' = "SyncSecrets") =>
            /\ lastOp'.req.verb # "delete"
            /\ \A ns \in NsNames, name \in SecretNames :
                  Orphan(ns, name) =>
                      /\ <<ns, name>> \in DOMAIN secrets'
                      /\ secrets'[<<ns, name>>] = secrets[<<ns, name>>]
       /\ (\E ns \in NsNames \ {SourceNamespace}, name \in SecretNames :
              <<ns, name>> \in DOMAIN secrets /\ <<ns, name>> \notin DOMAIN secrets') =>
            /\ "req" \in DOMAIN lastOp'
            /\ CallOf' = "deleteSingleSecret"
            /\ lastOp'.req.verb = "delete"
      ]_vars

\* C32's case: a sweep has returned over a cluster that holds a replica whose
\* source secret exists without the marker label, and the replica is still
\* there.
C32_Witness ==
    /\ lastOp.op = "SyncSecrets"
    /\ ~lastOp.interfered
    /\ \E name \in SecretNames :
          /\ <<SourceNamespace, name>> \in DOMAIN secrets
          /\ Orphan("ns1", name)

----------------------------------------------------------------------------
(* Claims checked under SpecRace *)

\* The replica the call f is about to update is no longer the one it fetched.
ChangedSinceGet(f) ==
    LET key == <<f.items[f.j], f.sourceSecrets[f.i].name>>
    IN key \notin DOMAIN secrets \/ secrets[key].rv # f.existing[1].rv

\* C35: every Update a call sends carries the resource version of the replica
\* the call fetched for that pair; and when the replica has been changed since
\* that Get, by an edit or by an accepted Update of another call, the Update is
\* rejected and leaves the secrets as they are.
C35_UpdateCarriesFetchedVersion ==
    [][\A g \in Goroutines :
          LET f == frames[g]
              h == frames'[g]
          IN (f.pc = "write" /\ f.existing # <<>> /\ Moved(f, h)) =>
                 /\ lastOp'.req.verb = "update"
                 /\ calls'[Len(calls')].rv = f.existing[1].rv
                 /\ ChangedSinceGet(f) =>
                       /\ lastOp'.req.result # "ok"
                       /\ secrets' = secrets
      ]_vars

\* C35's case: the replica was edited between the sweep's Get and its Update; the
\* Update, built on the version fetched, was rejected and the replica holds the
\* edit.
C35_Witness ==
    /\ CallOf = "SyncSecrets"
    /\ lastOp.interfered
    /\ Sent.verb = "update"
    /\ Sent.result # "ok"
    /\ <<Sent.ns, Sent.name>> \in DOMAIN secrets
    /\ calls[Len(calls)].rv < secrets[<<Sent.ns, Sent.name>>].rv
    /\ secrets[<<Sent.ns, Sent.name>>].rv = rev

\* C36: a Create is answered already-exists only when the secret is there, made
\* by the Create of the other path; and when the next sweep after a lost create
\* race has returned, nobody else having changed the cluster while it ran, the
\* replica's Data equals the source's.
C36_CreateRaceSettlesNextPass ==
    /\ (Sent.verb = "create" /\ Sent.result = "AlreadyExists") =>
           <<Sent.ns, Sent.name>> \in DOMAIN secrets
    /\ (lastOp.op = "SyncSecretsAfterRace" /\ ~lastOp.interfered
        /\ LabelledSource(lastOp.name)) =>
           ReplicaMatches(lastOp.ns, lastOp.name)

----------------------------------------------------------------------------
(* Claims checked under SpecDirect *)

EligibleNow == {ns \in NsNames : EligibleNamespace(ns)}

\* C11: two successive syncSecretToNamespace calls for the same source secret and
\* eligible namespace, with nothing happening in between or while they run,
\* issue at most one write request in total.
C11_TwoSyncsOneWrite ==
    (/\ lastOp.op = "syncSecretToNamespace"
     /\ lastOp.again
     /\ ~lastOp.interfered
     /\ EligibleNamespace(lastOp.ns)) =>
        Len(calls) <= 1

\* C12: when SyncSecrets has just returned, nobody else having changed the
\* cluster while it ran, no secret that bears the name of a labelled source
\* secret in an eligible namespace carries the marker label key.
C12_NoMarkerOnReplica ==
    (lastOp.op = "SyncSecrets" /\ ~lastOp.interfered) =>
        \A name \in SecretNames : LabelledSource(name) =>
            \A ns \in NsNames :
                (EligibleNamespace(ns) /\ <<ns, name>> \in DOMAIN secrets) =>
                    ~HasLabel(secrets[<<ns, name>>].labels, MarkerKey)

\* C19: a second application of deleteSingleSecretFromAllNamespaces right after
\* the first, with nobody else changing the cluster, leaves the secrets as the
\* first left them: like the first it sends one Delete to every eligible
\* namespace, and each of its Deletes is answered not-found.
C19_DeleteTwiceSameAsOnce ==
    (lastOp.op = "deleteSingleSecret" /\ lastOp.again /\ ~lastOp.interfered) =>
        LET n == Cardinality(EligibleNow)
        IN /\ secrets = lastOp.before
           /\ Len(calls) = 2 * n
           /\ \A i \in (n + 1)..(2 * n) :
                 calls[i].verb = "delete" /\ calls[i].result = "NotFound"
           /\ \A ns \in EligibleNow : \E i \in (n + 1)..(2 * n) : calls[i].ns = ns

\* C19's case: with two eligible namespaces, the first application removed a
\* replica and the second application has returned.
C19_Witness ==
    /\ lastOp.op = "deleteSingleSecret"
    /\ lastOp.again
    /\ ~lastOp.interfered
    /\ Len(calls) = 4
    /\ \E i \in 1..2 : calls[i].result = "ok"
    /\ calls[3].result = "NotFound"
    /\ calls[4].result = "NotFound"

\* The Get of the call f finds a replica whose Data and StringData equal those
\* of the source secret the call holds.
FindsEqualData(f) ==
    LET key == <<f.items[f.j], f.sourceSecrets[f.i].name>>
    IN /\ ~Fails(f.fault, "get", "secrets", key[1], key[2])
       /\ key \in DOMAIN secrets
       /\ secrets[key].data = f.sourceSecrets[f.i].data
       /\ secrets[key].stringData = f.sourceSecrets[f.i].stringData

\* C23: when the Get of syncSecretToNamespace finds a replica whose Data and
\* StringData equal the source's, the call sends no write for that pair and
\* leaves every secret, resource versions included, as it was, whatever the
\* labels and the identity of the replica.
C23_EqualDataNoWrite ==
    [][\A g \in Goroutines :
          LET f == frames[g]
              h == frames'[g]
          IN (f.pc = "getSecret" /\ Moved(f, h) /\ FindsEqualData(f)) =>
                 /\ NextPairTaken(f, h)
                 /\ calls' = f.calls
                 /\ secrets' = secrets
                 /\ rev' = rev
      ]_vars

\* C23's case: syncSecretToNamespace has returned after its Get of a replica
\* with the source's data and labels other than the source's.
C23_Witness ==
    /\ lastOp.op = "syncSecretToNamespace"
    /\ ~lastOp.again
    /\ Sent.verb = "get"
    /\ Sent.kind = "secrets"
    /\ Sent.result = "ok"
    /\ secrets[<<lastOp.ns, lastOp.name>>].data = lastOp.secret.data
    /\ secrets[<<lastOp.ns, lastOp.name>>].labels # lastOp.secret.labels
    /\ secrets[<<lastOp.ns, lastOp.name>>].rv < rev
    /\ calls = <<>>

\* C25: a call of syncSecretToNamespace whose Get of the replica fails with an
\* error other than not-found sends no write.
C25_GetErrorNoWrite ==
    (CallOf = "syncSecretToNamespace" /\ lastOp.getFails) => calls = <<>>


----------------------------------------------------------------------------
(* Claims checked under SpecWatcher *)

\* C5: the debouncer never evaluates the channel of an absent timer: entering its
\* wait with the timer unarmed does not crash the process.
C5_NoWaitOnAbsentTimer == debouncer # "panicked"

UpdateEventsFor(name) ==
    SelectSeq(emitted, LAMBDA e : e.EventType = "update" /\ e.Name = name)

AppliedFor(name) == SelectSeq(applied, LAMBDA e : e.Name = name)

\* C6: with no shutdown requested, the update events sent for a secret name are
\* either still held by a debouncer that waits to apply them, or have been applied
\* in exactly one batch, once, with the snapshot of the last event.
C6_RapidUpdatesAppliedOnce ==
    \A name \in SecretNames :
        (Len(UpdateEventsFor(name)) >= 1 /\ ~ctxDone) =>
            \/ debouncer \in {"select", "processBatch"}
            \/ /\ batches = 1
               /\ Len(AppliedFor(name)) = 1
               /\ AppliedFor(name)[1] = UpdateEventsFor(name)[Len(UpdateEventsFor(name))]

----------------------------------------------------------------------------
(* Claims checked under SpecHandler *)

\* The old and the new object of an update differ in Data or in StringData.
DataDiffers(oldSecret, newSecret) ==
    \/ oldSecret.data # newSecret.data
    \/ oldSecret.stringData # newSecret.stringData

\* C20: when the informer tells the update handler of a change of a source
\* secret, the handler sends an update event, carrying the new object, if and
\* only if the old and the new object differ in Data or StringData; a change
\* of labels or other metadata alone sends nothing, and the handler itself
\* issues no write and leaves the store as it is.
C20_UpdateHandlerFiltersOnData ==
    [][\A name \in SecretNames :
         (/\ lastOp'.op = "InformerNotify"
          /\ lastOp'.name = name
          /\ name \in DOMAIN informerCache
          /\ LabelledSource(name))
         => LET oldSecret == informerCache[name]
                newSecret == secrets[<<SourceNamespace, name>>]
                update == SecretEvent("update", <<newSecret>>, name)
            IN /\ (emitted' # emitted) <=> DataDiffers(oldSecret, newSecret)
               /\ DataDiffers(oldSecret, newSecret)
                    => /\ emitted' = Append(emitted, update)
                       /\ eventQueue' = Append(eventQueue, update)
               /\ ~DataDiffers(oldSecret, newSecret) => eventQueue' = eventQueue
               /\ calls' = <<>>
               /\ secrets' = secrets
               /\ rev' = rev]_vars

\* C20's case: the handler has been told of an update that changed only a label
\* of the source secret, after the Add of that secret.
C20_Witness ==
    /\ lastOp.op = "InformerNotify"
    /\ lastOp.name \in DOMAIN informerCache
    /\ HasLabel(informerCache[lastOp.name].labels, NoteKey)
    /\ Len(emitted) = 1
    /\ emitted[1].EventType = "add"
    /\ ~HasLabel(emitted[1].Secret[1].labels, NoteKey)
    /\ emitted[1].Secret[1].data = informerCache[lastOp.name].data

----------------------------------------------------------------------------
(* Claims checked under SpecConfig *)

\* What a value denotes.
Denoted(value) == CHOOSE case \in EnvIntCases : case.value = value

\* C21: for each of the four integer settings, LoadConfigFromEnv returns the
\* integer its variable denotes when that integer lies in the setting's range,
\* bounds included, and the setting's default in every other case: variable
\* unset, not an integer, below the range or above it.
C21_IntSettingInRangeOrDefault ==
    lastOp.op = "LoadConfigFromEnv" =>
        \A setting \in IntSettings :
            LET denoted == Denoted(lastOp.environ[setting.key])
                inRange == /\ denoted.isInteger
                           /\ ~denoted.beyond
                           /\ denoted.integer \in setting.lo..setting.hi
            IN lastOp.config[setting.field] =
                   GoInt(IF inRange THEN denoted.integer ELSE setting.def)

\* C21's case: one variable beyond the range of int, one at its upper bound,
\* one below its range and one above it by many digits.
C21_Witness ==
    /\ lastOp.op = "LoadConfigFromEnv"
    /\ ~Denoted(lastOp.environ["METRICS_PORT"]).isInteger
    /\ Len(lastOp.environ["METRICS_PORT"]) = 19
    /\ Denoted(lastOp.environ["SYNC_INTERVAL"]).integer = 1440
    /\ lastOp.environ["SECRET_SYNC_DEBOUNCE_SECONDS"] = <<"0">>
    /\ Denoted(lastOp.environ["SECRET_SYNC_RATE_LIMIT"]).integer = 2147483647
    /\ lastOp.config.MetricsPort = GoInt(9090)
    /\ lastOp.config.SyncInterval = GoInt(1440)
    /\ lastOp.config.SecretSyncDebounce = GoInt(5)
    /\ lastOp.config.SecretSyncRateLimit = GoInt(10)

----------------------------------------------------------------------------
(* Claims checked under SpecStartup *)

\* C34: when the cache sync of WatchNamespaces or of WatchSourceSecrets has failed
\* and that function has returned, the process is still running.
C34_CacheSyncFailureIsLocal ==
    (watcher = "syncFailed" \/ nsWatcher = "syncFailed") => ProcessAlive

----------------------------------------------------------------------------
(* Claims checked under SpecQueue *)

\* The last n elements of a sequence.
Suffix(s, n) == SubSeq(s, Len(s) - n + 1, Len(s))

\* C37: the queue never holds more than QueueCap events; it holds the events
\* emitted last, in the order of their emission; and an event in the queue has a
\* running debouncer to receive it.
C37_QueueBoundedAndInOrder ==
    /\ Len(eventQueue) <= QueueCap
    /\ Len(eventQueue) <= Len(emitted)
    /\ eventQueue = Suffix(emitted, Len(eventQueue))
    /\ eventQueue # <<>> => debouncer \in {"select", "processBatch"}

----------------------------------------------------------------------------
(* Claims checked under SpecShutdown *)

\* C38: no callback sends on the queue once WatchSourceSecrets has closed it.
C38_NoSendOnClosedQueue ==
    [][queueClosed => (emitted' = emitted /\ lastOp'.op # "SendOnClosedQueue")]_vars

----------------------------------------------------------------------------
(* Claims checked under SpecMain *)

\* C8: once the Data of a labelled source secret has been changed and a full
\* debounce window has passed with no further change, every replica of it in an
\* eligible namespace holds the new Data.
C8_EventPathPropagatesUpdate ==
    (sourceChange.kind = "update" /\ sourceChange.windowPassed) =>
        \A ns \in NsNames :
            (EligibleNamespace(ns) /\ <<ns, sourceChange.name>> \in DOMAIN secrets) =>
                ReplicaMatches(ns, sourceChange.name)

\* C10: once a periodic SyncSecrets has run after the last change of the cluster,
\* every eligible namespace's replica of every labelled source secret has Data
\* equal to the source's.
C10_PeriodicSweepRepairs ==
    sweptSinceChange =>
        \A name \in SecretNames : LabelledSource(name) =>
            \A ns \in NsNames : EligibleNamespace(ns) => ReplicaMatches(ns, name)

----------------------------------------------------------------------------
(* Claims checked under SpecLifecycle *)

\* C14: once main has received SIGINT or SIGTERM it cancels the shared context
\* and reaches "Shutdown complete", whether or not its goroutines return.
C14_ShutdownCompletes == (mainPC = "signalled") ~> (mainPC = "complete" /\ ctxDone)

\* C14's case: the grace period ended the wait while a goroutine had not returned.
C14_Witness ==
    /\ mainPC = "complete"
    /\ lastOp.op = "ShutdownTimeout"
    /\ wgRunning # {}
    /\ ctxDone

\* C16: when main has started its goroutines, WatchSourceSecrets has been started
\* if and only if cfg.EnableSecretWatcher is true.
C16_WatcherFollowsToggle ==
    lastOp.op = "MainStart" => (lastOp.enableSecretWatcher <=> watcher = "started")

SyncOps == {"SyncSecrets", "SyncSecretsFailed"}

\* C17: the periodic goroutine leaves its start only by running the initial
\* SyncSecrets, after which it ticks; every SyncSecrets call, failed or not, leaves
\* it ticking; and it stops ticking only once the context is cancelled.
C17_PeriodicSyncKeepsTicking ==
    [][/\ (periodic = "initial" /\ periodic' # "initial") =>
              (periodic' = "ticking" /\ lastOp'.op \in SyncOps)
       /\ (lastOp'.op \in SyncOps) =>
              (periodic \in {"initial", "ticking"} /\ periodic' = "ticking")
       /\ (periodic = "ticking" /\ periodic' # "ticking") =>
              (periodic' = "stopped" /\ ctxDone)
      ]_vars

\* C17's case: a SyncSecrets call has just failed, the context is not cancelled,
\* and the goroutine is at its ticker.
C17_Witness ==
    /\ lastOp.op = "SyncSecretsFailed"
    /\ periodic = "ticking"
    /\ ~ctxDone
    /\ "periodicSync" \in wgRunning

\* C33: once the shared context is cancelled, a SyncSecrets call or a namespace
\* handler's syncSecretsToSingleNamespace sends no request to the cluster API.
C33_NoCallAfterCancel ==
    [][(ctxDone /\ ("req" \in DOMAIN lastOp') /\ CallOf' \in {"SyncSecrets", "NamespaceAdd"}) =>
          lastOp'.req = NoReq]_vars

----------------------------------------------------------------------------
(* Claims checked under SpecReturn *)

\* C39: once the context is cancelled, every goroutine of the WaitGroup returns.
C39_AllGoroutinesReturn == ctxDone ~> (wgRunning = {})

====
